---------------------------- MODULE Spec2Model ----------------------------
(***************************************************************************)
(* A model of the linter core: the autofix loop (Linter.verifyAndFix), the *)
(* rule dispatcher (runRules) and the severity normalisation               *)
(* (getRuleSeverity).                                                      *)
(*                                                                         *)
(* The module holds three state machines over one list of variables.  Each *)
(* specification drives its own group of variables and leaves the other    *)
(* groups parked at their initial value:                                   *)
(*   Spec / FairSpec  verifyAndFix                       (fixVars)         *)
(*   SpecRules        runRules, one pass                 (ruleVars)        *)
(*   SpecSeverity     getRuleSeverity on a drawn input   (sevVars)         *)
(*   SpecReport       context.report in a listener call  (repVars)         *)
(*   SpecVerify       #verifyWithoutProcessors           (verVars)         *)
(*   SpecTraverse     Traverser.traverse                 (travVars)        *)
(***************************************************************************)
EXTENDS Integers, Sequences, FiniteSets, TLC

VARIABLES
    \* ---- Linter.verifyAndFix (locals of the call, and what it returned)
    pc,             \* position in verifyAndFix
    text,           \* parameter `text`
    shouldFix,      \* const shouldFix = options?.fix ?? true
    messages,       \* let messages
    fixedResult,    \* let fixedResult
    fixed,          \* let fixed
    passNumber,     \* let passNumber
    currentText,    \* let currentText
    slotSourceCode, \* slots.lastSourceCode of the Linter the call is made on
    hist,           \* observation log of the call (not program state)
    \* ---- runRules
    rpc,            \* position in runRules
    configuredRules,\* parameter: ordered <<ruleId, ruleConfig>> entries
    ruleMap,        \* slots.ruleMap behind ruleMapper: ruleId -> rule or null
    nodeQueue,      \* const nodeQueue
    ruleIdx,        \* position of Object.keys(configuredRules).forEach
    queueIdx,       \* position of nodeQueue.forEach
    currentNode,    \* let currentNode
    emitter,        \* listeners registered on the emitter, in order
    lintingProblems,\* const lintingProblems
    rlog,           \* observation log of the pass (not program state)
    \* ---- getRuleSeverity
    ruleConfig,     \* parameter `ruleConfig`
    sevResult,      \* the returned value, or "pending" before the call
    \* ---- context.report inside one listener call of a pass
    lpc,            \* position: in the listener, in one of the catch blocks, ...
    ruleMeta,       \* rule.meta of the rule that owns the listener
    descriptor,     \* what the listener does: the report it makes or the value it throws
    disableFixes,   \* parameter `disableFixes` of runRules
    reported,       \* const lintingProblems of the pass
    err,            \* the error in flight, and at the end the one the caller gets
    \* ---- Linter.#verifyWithoutProcessors
    vpc,            \* position in #verifyWithoutProcessors
    vinput,         \* the arguments: text or SourceCode, config.parser, ...
    lastSourceCode, \* slots.lastSourceCode
    stages,         \* observation log: the collaborators called so far, in order
    produced,       \* let lintingProblems (what runRules returned)
    handed,         \* the `problems` handed to applyDisableDirectives
    vresult,        \* the returned Problem list
    \* ---- Traverser
    tpc,            \* position of the traversal
    ttree,          \* the tree given to traverse()
    traverser,      \* the private fields #current, #parents, #skipped, #broken
    tstack,         \* the open calls of #traverse
    tlog,           \* observation log: the enter and leave calls made, in order
    tprev,          \* observation: the fields of the instance when traverse() was called
    \* ---- a cursor of the token store
    cpc,            \* "idle" until a cursor is created
    cinput,         \* the arguments of createCursor
    cursor,         \* the cursor object the factory returned
    yielded,        \* observation log: the values moveNext() produced, and its calls
    \* ---- one Linter instance: its registries
    epc,            \* the kind of the last call made on the instance
    slots,          \* internalSlotsMap.get(this): ruleMap, parserMap, lastConfigArray
    got,            \* what the last getRules() or ruleMap.get() returned
    elog,            \* observation log: the rules registered, in call order
    \* ---- the context objects of one pass of runRules
    xpc,            \* idle until the contexts of a pass are built
    heap,           \* the objects the rule contexts reach: frozen or not, and their fields
    acted,          \* the rules that have written to an object
    lastAct,         \* observation log: the last write a rule made
    \* ---- the preparation of a verification call: options and environments
    ppc,            \* which preparation step ran last
    pinput,         \* the arguments of that step
    prepared,        \* what the step produced
    \* ---- the global scope of a call and its augmentation
    gpc,            \* whether addDeclaredGlobals has run
    ginput,         \* the configured globals of the call
    globalScope,     \* the global scope: its variables and its through list
    \* ---- concurrent executeOnFiles calls on one CLIEngine
    tasks,          \* the executeOnFiles calls: their files, position and results
    running,        \* the call whose synchronous code is being run, 0 for none
    lastParsed,     \* slots.lastSourceCode of the shared Linter
    lintOrder,       \* observation: the calls whose files were verified, in order
    \* ---- one Linter used for several verifyAndFix calls, next to a new one
    kpc,            \* what was done with the Linter last
    oracle,         \* the registered rules, the parser and the patcher, as functions of the text
    engine,         \* slots.lastSourceCode and slots.lastConfigArray of the Linter
    outcome         \* what the last call returned, and what a new Linter returns for it

fixVars == <<pc, text, shouldFix, messages, fixedResult, fixed, passNumber,
             currentText, slotSourceCode, hist>>
ruleVars == <<rpc, configuredRules, ruleMap, nodeQueue, ruleIdx, queueIdx,
              currentNode, emitter, lintingProblems, rlog>>
sevVars == <<ruleConfig, sevResult>>
repVars == <<lpc, ruleMeta, descriptor, disableFixes, reported, err>>
verVars == <<vpc, vinput, lastSourceCode, stages, produced, handed, vresult>>
travVars == <<tpc, ttree, traverser, tstack, tlog, tprev>>
curVars == <<cpc, cinput, cursor, yielded>>
earlyVars == <<fixVars, ruleVars, sevVars, repVars, verVars, travVars>>
regVars == <<epc, slots, got, elog>>
ctxVars == <<xpc, heap, acted, lastAct>>
prepVars == <<ppc, pinput, prepared>>
globVars == <<gpc, ginput, globalScope>>
cliVars == <<tasks, running, lastParsed, lintOrder>>
histVars == <<kpc, oracle, engine, outcome>>
moreVars == <<curVars, regVars, ctxVars, prepVars, globVars, cliVars, histVars>>
vars == <<earlyVars, moreVars>>

-----------------------------------------------------------------------------
(* Bounds of the model *)

\* source texts are 0..MaxText
MaxText == 1
\* longest Problem list one verification pass returns
MaxMsgs == 1

Texts == 0..MaxText

-----------------------------------------------------------------------------
(* Linter.verifyAndFix *)

MAX_AUTOFIX_PASSES == 10

\* A Problem as verifyAndFix and the patcher read it: `fatal` (set on parse
\* errors only) and whether it carries a `fix`.
ParseError == [ruleId |-> "null", fatal |-> TRUE, severity |-> 2, fix |-> FALSE]

RuleProblems == {[ruleId |-> "rule", fatal |-> FALSE, severity |-> 2, fix |-> f] :
                    f \in BOOLEAN}

SeqsUpTo(S, n) == UNION {[1..k -> S] : k \in 0..n}

\* What one call of #verifyWithConfigArray can return for a text: the single
\* parse error, or the (possibly empty) Problem list of a completed pass.
\* The parser and the rule bodies are external, so the list is any list.
VerifyOutcomes == {<<ParseError>>} \cup SeqsUpTo(RuleProblems, MaxMsgs)

HasFix(msgs) == \E i \in 1..Len(msgs) : msgs[i].fix

\* msgs without the entries at the positions in `drop`
RECURSIVE Without(_, _)
Without(msgs, drop) ==
    IF msgs = <<>> THEN <<>>
    ELSE LET n == Len(msgs)
             rest == Without(SubSeq(msgs, 1, n - 1), drop)
         IN IF n \in drop THEN rest ELSE Append(rest, msgs[n])

FixablePositions(msgs) == {i \in 1..Len(msgs) : msgs[i].fix}

\* The edits one patch round applies: all of them, or, when the later ones
\* overlap the first, the first alone (the others stay in the list).
AppliedSets(msgs) ==
    LET fixable == FixablePositions(msgs)
    IN IF fixable = {} THEN {}
       ELSE {fixable, {CHOOSE i \in fixable : \A j \in fixable : i <= j}}

\* SourceCodeFixer.applyFixes(currentText, messages, shouldFix): applies only
\* edits carried by the messages and accepted by shouldFix.  A round that
\* applies nothing returns the message list as it came, and the text as it
\* came unless the list is the single fatal Problem: the output of that round
\* is not meaningful (comment at lines 1195-1198), so it is any text.
ApplyFixesOutcomes(txt, msgs, sf) ==
    LET unfixed == {[fixed |-> FALSE, output |-> o, messages |-> msgs] :
                       o \in IF msgs = <<ParseError>> THEN Texts ELSE {txt}}
        applied == {[fixed |-> TRUE, output |-> o, messages |-> Without(msgs, d)] :
                       o \in Texts, d \in AppliedSets(msgs)}
    IN CASE sf = "false" -> unfixed
         [] sf = "true" -> IF HasFix(msgs) THEN applied ELSE unfixed
         [] OTHER -> unfixed \cup applied

\* mutant of NextPassNumber: the pass counter is never advanced
NextPassNumberStuck(n) == n

\* passNumber++
NextPassNumber(n) == n + 1

\* mutant of StopOnFatal: a fatal pass does not leave the loop
StopOnFatalNever(msgs) == FALSE

\* if (messages.length === 1 && messages[0].fatal) break
StopOnFatal(msgs) == Len(msgs) = 1 /\ msgs[1].fatal

\* mutant of LoopCondition: one pass only
LoopConditionNever(fr, n) == FALSE

\* mutant of LoopCondition: the cap is compared with <=
LoopConditionOffByOne(fr, n) == fr.fixed /\ n <= MAX_AUTOFIX_PASSES

\* while (fixedResult.fixed && passNumber < MAX_AUTOFIX_PASSES)
LoopCondition(fr, n) == fr.fixed /\ n < MAX_AUTOFIX_PASSES

\* mutant of NeedsFinalVerify: the text is verified once more in every call
NeedsFinalVerifyAlways(fr) == TRUE

\* mutant of NeedsFinalVerify: the last verification is skipped
NeedsFinalVerifyNever(fr) == FALSE

\* if (fixedResult.fixed) { fixedResult.messages = verify(currentText) }
NeedsFinalVerify(fr) == fr.fixed

\* mutant of AccumulateFixed: only the last round counts
AccumulateFixedLast(f, fr) == fr.fixed

\* fixed = fixed || fixedResult.fixed
AccumulateFixed(f, fr) == f \/ fr.fixed

\* mutant of UpdatedText: the next pass keeps the text it had
UpdatedTextKept(cur, fr) == cur

\* currentText = fixedResult.output
UpdatedText(cur, fr) == fr.output

NoResult == [fixed |-> FALSE, output |-> 0, messages |-> <<>>]

\* lastSourceCode: null; a SourceCode is known by its text
NullSourceCode == -1

\* mutant of LastSourceCodeAfter: the slot is not reset before parsing
LastSourceCodeKept(slot, txt, msgs) ==
    IF msgs = <<ParseError>> THEN slot ELSE txt

\* slots.lastSourceCode after a verification of the text txt that returned
\* msgs: reset to null at the start and set when parse() succeeded
LastSourceCodeAfter(slot, txt, msgs) ==
    IF msgs = <<ParseError>> THEN NullSourceCode ELSE txt

\* The observation log: how often the Orchestrator and the patcher were
\* called, with which text, and what the patch rounds reported.
NoHist == [verifyCalls |-> 0, patchCalls |-> 0, goodRounds |-> 0,
           verifyArg |-> 0, patchArg |-> 0,
           prevPatchOut |-> 0, lastPatchOut |-> 0, lastGoodOut |-> 0,
           firstOut |-> 0,
           allFixed |-> TRUE, anyFixed |-> FALSE,
           firstFixed |-> FALSE, laterFixed |-> FALSE, lastFixed |-> FALSE,
           fatalPass |-> 0, fatalText |-> 0,
           resultMsgsOf |-> 0, finalVerified |-> FALSE]

\* the log's counters stop at CountCap, which no call reaches
CountCap == MAX_AUTOFIX_PASSES + 2

Bump(c) == IF c < CountCap THEN c + 1 ELSE c

\* verifyAndFix touches nothing of the other machines
FixFrame == UNCHANGED <<ruleVars, sevVars, repVars, verVars, travVars, moreVars>>

InitFix ==
    /\ pc = "idle"
    /\ text = 0
    /\ shouldFix = "true"
    /\ messages = <<>>
    /\ fixedResult = NoResult
    /\ fixed = FALSE
    /\ passNumber = 0
    /\ currentText = 0
    /\ slotSourceCode = NullSourceCode
    /\ hist = NoHist

\* verifyAndFix(text, config, options): lines 1172-1177
Call ==
    /\ FixFrame
    /\ pc \in {"idle", "done", "thrown"}
    /\ \E t \in Texts, sf \in {"true", "false", "predicate"} :
        /\ text' = t
        /\ shouldFix' = sf
        /\ currentText' = t
    /\ messages' = <<>>
    /\ fixedResult' = NoResult
    /\ fixed' = FALSE
    /\ passNumber' = 0
    /\ hist' = NoHist
    /\ pc' = "loop"
    /\ UNCHANGED slotSourceCode

\* a rule failure inside the pass: the error leaves verifyAndFix
VerifyThrows ==
    /\ FixFrame
    /\ pc \in {"loop", "final"}
    /\ pc = "final" => NeedsFinalVerify(fixedResult)
    /\ pc' = "thrown"
    /\ slotSourceCode' = LastSourceCodeAfter(slotSourceCode, currentText, <<>>)
    /\ UNCHANGED <<text, shouldFix, messages, fixedResult, fixed, passNumber,
                   currentText, hist>>

\* the log's own reading of a pass: it yielded exactly one Problem, a fatal one
YieldedOneFatal(msgs) == Len(msgs) = 1 /\ msgs[1].fatal

\* the log after a patch round of pass n over txt that returned fr
LogPatch(h, n, txt, msgs, fr) ==
    LET first == h.patchCalls = 0
        fatal == YieldedOneFatal(msgs)
    IN [h EXCEPT !.verifyCalls = Bump(@),
                 !.verifyArg = txt,
                 !.patchCalls = Bump(@),
                 !.patchArg = txt,
                 !.prevPatchOut = h.lastPatchOut,
                 !.lastPatchOut = fr.output,
                 !.allFixed = @ /\ fr.fixed,
                 !.lastFixed = fr.fixed,
                 !.resultMsgsOf = txt,
                 !.fatalPass = IF fatal /\ @ = 0 THEN n ELSE @,
                 !.fatalText = IF fatal /\ h.fatalPass = 0 THEN txt ELSE @,
                 !.goodRounds = IF fatal THEN @ ELSE Bump(@),
                 !.lastGoodOut = IF fatal THEN @ ELSE fr.output,
                 !.anyFixed = IF fatal THEN @ ELSE @ \/ fr.fixed,
                 !.firstFixed = IF first THEN fr.fixed ELSE @,
                 !.firstOut = IF first THEN fr.output ELSE IF fr.fixed THEN 0 ELSE @,
                 !.laterFixed = IF first THEN @ ELSE @ \/ fr.fixed]

\* One pass of the do-while loop: passNumber++; messages = verify(currentText);
\* fixedResult = SourceCodeFixer.applyFixes(...); the fatal break; the two
\* updates; the while condition
LoopPass ==
    /\ FixFrame
    /\ pc = "loop"
    /\ passNumber' = NextPassNumber(passNumber)
    /\ \E out \in VerifyOutcomes :
        \E fr \in ApplyFixesOutcomes(currentText, out, shouldFix) :
            /\ messages' = out
            /\ slotSourceCode' = LastSourceCodeAfter(slotSourceCode, currentText, out)
            /\ fixedResult' = fr
            /\ hist' = LogPatch(hist, passNumber', currentText, out, fr)
            /\ IF StopOnFatal(out)
               THEN /\ pc' = "final"
                    /\ UNCHANGED <<fixed, currentText>>
               ELSE /\ fixed' = AccumulateFixed(fixed, fr)
                    /\ currentText' = UpdatedText(currentText, fr)
                    /\ pc' = IF LoopCondition(fr, passNumber') THEN "loop" ELSE "final"
    /\ UNCHANGED <<text, shouldFix>>

\* if (fixedResult.fixed) fixedResult.messages = verify(currentText);
\* fixedResult.fixed = fixed; fixedResult.output = currentText; return
FinalReturn ==
    /\ FixFrame
    /\ pc = "final"
    /\ IF NeedsFinalVerify(fixedResult)
       THEN \E out \in VerifyOutcomes :
              /\ fixedResult' = [fixed |-> fixed, output |-> currentText, messages |-> out]
              /\ slotSourceCode' = LastSourceCodeAfter(slotSourceCode, currentText, out)
              /\ hist' = [hist EXCEPT !.verifyCalls = Bump(@),
                                      !.verifyArg = currentText,
                                      !.resultMsgsOf = currentText,
                                      !.finalVerified = TRUE]
       ELSE /\ fixedResult' = [fixedResult EXCEPT !.fixed = fixed, !.output = currentText]
            /\ hist' = hist
            /\ UNCHANGED slotSourceCode
    /\ pc' = "done"
    /\ UNCHANGED <<text, shouldFix, messages, fixed, passNumber, currentText>>

StepFix == LoopPass \/ FinalReturn

NextFix == Call \/ StepFix \/ VerifyThrows

-----------------------------------------------------------------------------
(* JavaScript values a rule configuration can hold.  A value is a record   *)
(* [t, v]: t is its type tag, v its content.  A string is the sequence of  *)
(* its characters, so that toLowerCase and property lookup work on it.     *)

Num(n) == [t |-> "number", v |-> n]
Str(chars) == [t |-> "string", v |-> chars]
Arr(elems) == [t |-> "array", v |-> elems]
Undefined == [t |-> "undefined", v |-> 0]
Null == [t |-> "null", v |-> 0]
Bool(b) == [t |-> "boolean", v |-> IF b THEN 1 ELSE 0]
Obj == [t |-> "object", v |-> 0]
\* the values a plain object inherits: Object and Object.prototype
ObjectFunction == [t |-> "function", v |-> 0]
ObjectPrototype == [t |-> "object", v |-> 1]

s_off == <<"o", "f", "f">>
s_warn == <<"w", "a", "r", "n">>
s_error == <<"e", "r", "r", "o", "r">>
s_constructor == <<"c", "o", "n", "s", "t", "r", "u", "c", "t", "o", "r">>
s_proto == <<"_", "_", "p", "r", "o", "t", "o", "_", "_">>
s_toString == <<"t", "o", "S", "t", "r", "i", "n", "g">>
s_valueOf == <<"v", "a", "l", "u", "e", "O", "f">>

Upper == <<"A", "C", "E", "F", "G", "I", "N", "O", "P", "R", "S", "T", "U", "V", "W">>
LowerOf == <<"a", "c", "e", "f", "g", "i", "n", "o", "p", "r", "s", "t", "u", "v", "w">>

\* String.prototype.toLowerCase, character by character
LowerChar(c) ==
    IF \E i \in 1..Len(Upper) : Upper[i] = c
    THEN LowerOf[CHOOSE i \in 1..Len(Upper) : Upper[i] = c]
    ELSE c

toLowerCase(chars) == [i \in 1..Len(chars) |-> LowerChar(chars[i])]

\* const RULE_SEVERITY_STRINGS = ["off", "warn", "error"]
RULE_SEVERITY_STRINGS == <<s_off, s_warn, s_error>>

\* RULE_SEVERITY[key]: the map built by reduce() on a plain object {}: its
\* own keys are the three strings, each mapped to its index; every other key
\* is looked up on Object.prototype, which holds (among others, all spelled
\* with these exact letters) constructor, __proto__, toString and valueOf.
RULE_SEVERITY(key) ==
    IF \E i \in 1..Len(RULE_SEVERITY_STRINGS) : RULE_SEVERITY_STRINGS[i] = key
    THEN Num((CHOOSE i \in 1..Len(RULE_SEVERITY_STRINGS) : RULE_SEVERITY_STRINGS[i] = key) - 1)
    ELSE IF key = s_constructor THEN ObjectFunction
    ELSE IF key = s_proto THEN ObjectPrototype
    ELSE IF key \in {s_toString, s_valueOf} THEN ObjectFunction
    ELSE Undefined

\* JavaScript truthiness of the values above
Truthy(x) ==
    CASE x.t = "number" -> x.v # 0
      [] x.t = "string" -> x.v # <<>>
      [] x.t \in {"undefined", "null"} -> FALSE
      [] x.t = "boolean" -> x.v = 1
      [] OTHER -> TRUE

\* x || y
OrElse(x, y) == IF Truthy(x) THEN x ELSE y

\* getRuleSeverity(ruleConfig)
getRuleSeverity(cfg) ==
    LET severityValue == IF cfg.t = "array"
                         THEN (IF Len(cfg.v) >= 1 THEN cfg.v[1] ELSE Undefined)
                         ELSE cfg
    IN IF severityValue.t = "number" /\ severityValue.v \in {0, 1, 2}
       THEN severityValue
       ELSE IF severityValue.t = "string"
       THEN OrElse(RULE_SEVERITY(toLowerCase(severityValue.v)), Num(0))
       ELSE Num(0)

\* getRuleOptions(ruleConfig)
getRuleOptions(cfg) ==
    IF cfg.t = "array" THEN SubSeq(cfg.v, 2, Len(cfg.v)) ELSE <<>>

\* most options an array configuration carries after its severity
MaxOptions == 1

ConfigStrings ==
    {s_off, s_warn, s_error, s_constructor, s_proto, s_toString, s_valueOf,
     <<"O", "f", "f">>, <<"O", "F", "F">>, <<"W", "a", "r", "n">>, <<"W", "A", "R", "N">>,
     <<"E", "r", "r", "o", "r">>, <<"E", "R", "R", "O", "R">>, <<"e", "r", "r", "O", "r">>,
     <<"C", "o", "n", "s", "t", "r", "u", "c", "t", "o", "r">>,
     <<"t", "o", "s", "t", "r", "i", "n", "g">>,
     <<"e", "r", "r">>, <<"o", "n">>, <<"2">>, <<>>}

ConfigScalars ==
    {Num(n) : n \in -1..3} \cup {Str(c) : c \in ConfigStrings}
        \cup {Undefined, Null, Bool(TRUE), Bool(FALSE), Obj}

OptionValues == {Str(<<"o", "n">>), Num(2)}

ConfigArrays ==
    {Arr(<<>>), Arr(<<Arr(<<Num(2)>>)>>)}
        \cup {Arr(<<first>> \o opts) :
                 first \in ConfigScalars, opts \in SeqsUpTo(OptionValues, MaxOptions)}

\* every rule configuration value the model draws
RuleConfigValues == ConfigScalars \cup ConfigArrays

Pending == [t |-> "pending", v |-> 0]

SeverityFrame == UNCHANGED <<fixVars, ruleVars, repVars, verVars, travVars, moreVars>>

InitSeverity ==
    /\ ruleConfig \in RuleConfigValues
    /\ sevResult = Pending

\* one call getRuleSeverity(ruleConfig)
CallGetRuleSeverity ==
    /\ SeverityFrame
    /\ sevResult = Pending
    /\ sevResult' = getRuleSeverity(ruleConfig)
    /\ UNCHANGED ruleConfig

NextSeverity == CallGetRuleSeverity

-----------------------------------------------------------------------------
(* Errors thrown while the rules run, and what the catch blocks on the way  *)
(* to the caller make of them                                              *)

\* options.filename
Filename == "<input>"

\* err.currentNode while the property is absent
NoNode == [type |-> "none", line |-> ""]

\* An error value.  message is the list of the pieces appended to it;
\* ruleId and currentNode are the properties the catch blocks add, "unset"
\* and NoNode while absent.  kind "null" is the thrown value null, which has no
\* properties.
ErrorOf(kind, msg) ==
    [kind |-> kind, message |-> <<msg>>, ruleId |-> "unset", currentNode |-> NoNode]

NoError == [kind |-> "none", message |-> <<>>, ruleId |-> "unset", currentNode |-> NoNode]

ThrownNull == [kind |-> "null", message |-> <<>>, ruleId |-> "unset", currentNode |-> NoNode]

ThrownValue(kind) == IF kind = "null" THEN ThrownNull ELSE ErrorOf("Error", "listener failed")

\* createRuleListeners: catch (ex) { ex.message = `Error while loading rule
\* '${ruleContext.id}': ${ex.message}`; throw ex }
LoadingError(ruleId) ==
    ErrorOf("Error", "Error while loading rule '" \o ruleId \o "': create failed")

\* mutant of HandlerCatch: the error is rethrown as it came
HandlerCatchBare(e, ruleId) == e

\* ruleErrorHandler: catch (e) { e.ruleId = ruleId; throw e }.  Setting a
\* property of null is itself a TypeError, which then is the error in flight.
HandlerCatch(e, ruleId) ==
    IF e.kind = "null"
    THEN ErrorOf("TypeError", "Cannot set properties of null (setting 'ruleId')")
    ELSE [e EXCEPT !.ruleId = ruleId]

\* nodeQueue.forEach: catch (err) { err.currentNode = currentNode; throw err }
QueueCatch(e, node) == [e EXCEPT !.currentNode = node]

\* #verifyWithoutProcessors: catch (err) { err.message += ...; throw err }
VerifyCatch(e, filename) ==
    LET named == Append(e.message, "\nOccurred while linting " \o filename)
        lined == IF e.currentNode # NoNode
                 THEN Append(named, ":" \o e.currentNode.line) ELSE named
        ruled == IF e.ruleId # "unset"
                 THEN Append(lined, "\nRule: '" \o e.ruleId \o "'") ELSE lined
    IN [e EXCEPT !.message = ruled]

-----------------------------------------------------------------------------
(* runRules: one pass of the rule dispatcher over a parsed tree *)

\* rule ids are 1..MaxRules
MaxRules == 2

RuleIds == 1..MaxRules

\* ruleMapper(ruleId) of an id that was never defined (Rules.get returns null)
NoRule == [defined |-> FALSE, listens |-> <<>>, createThrows |-> FALSE]

Sel(type, phase) == [type |-> type, phase |-> phase]

\* Rule modules.  `listens` are the selector keys of the listener map that
\* create(context) returns, in key order; a module whose create throws
\* returns none.
RuleModules ==
    {[defined |-> TRUE, listens |-> <<Sel("Program", "enter"), Sel("A", "exit")>>,
      createThrows |-> FALSE],
     [defined |-> TRUE, listens |-> <<>>, createThrows |-> TRUE]}

\* Parsed trees: the type of each node and its child nodes in visiting order.
\* Node 1 is the root (sourceCode.ast).
Trees ==
    {[type |-> <<"Program", "A", "B">>, kids |-> <<(<<2, 3>>), (<<>>), (<<>>)>>],
     [type |-> <<"Program", "B", "A">>, kids |-> <<(<<2>>), (<<3>>), (<<>>)>>]}

\* Traverser.traverse with the enter and leave callbacks of runRules: the
\* enter entry of a node, the entries of its children in order, its leave
\* entry.
RECURSIVE TraverseNode(_, _)
RECURSIVE TraverseAll(_, _)
TraverseNode(tree, n) ==
    <<[isEntering |-> TRUE, node |-> n]>>
        \o TraverseAll(tree, tree.kids[n])
        \o <<[isEntering |-> FALSE, node |-> n]>>

TraverseAll(tree, ns) ==
    IF ns = <<>> THEN <<>>
    ELSE TraverseNode(tree, Head(ns)) \o TraverseAll(tree, Tail(ns))

\* configurations the passes are run with
DispatchConfigs ==
    {Str(<<"O", "f", "f">>), Num(1), Arr(<<Str(s_error), Str(<<"o", "n">>)>>), Num(3)}

\* Object.keys(configuredRules) with each key's value: every list of
\* distinct rule ids
ConfiguredRuleLists ==
    {c \in SeqsUpTo([ruleId : RuleIds, config : DispatchConfigs], MaxRules) :
        \A i, j \in 1..Len(c) : i # j => c[i].ruleId # c[j].ruleId}

\* const DEFAULT_ERROR_LOC
DEFAULT_ERROR_LOC ==
    [start |-> [line |-> 1, column |-> 0], end |-> [line |-> 1, column |-> 1]]

OptionOr(options, key, default) ==
    IF key \in DOMAIN options THEN options[key] ELSE default

\* `Definition for rule '${options.ruleId}' was not found.`
MissingRuleMessage(ruleId) ==
    [template |-> "Definition for rule '${ruleId}' was not found.", ruleId |-> ruleId]

\* ruleId: null
NullRuleId == 0

\* mutant of createLintingProblem: the columns are not made 1-based
createLintingProblemRawColumn(options) ==
    LET loc == OptionOr(options, "loc", DEFAULT_ERROR_LOC)
    IN [ruleId |-> OptionOr(options, "ruleId", NullRuleId),
        message |-> OptionOr(options, "message", MissingRuleMessage(options.ruleId)),
        line |-> loc.start.line,
        column |-> loc.start.column,
        endLine |-> loc.end.line,
        endColumn |-> loc.end.column,
        severity |-> OptionOr(options, "severity", Num(2)),
        nodeType |-> "null"]

\* createLintingProblem(options)
createLintingProblem(options) ==
    LET loc == OptionOr(options, "loc", DEFAULT_ERROR_LOC)
    IN [ruleId |-> OptionOr(options, "ruleId", NullRuleId),
        message |-> OptionOr(options, "message", MissingRuleMessage(options.ruleId)),
        line |-> loc.start.line,
        column |-> loc.start.column + 1,
        endLine |-> loc.end.line,
        endColumn |-> loc.end.column + 1,
        severity |-> OptionOr(options, "severity", Num(2)),
        nodeType |-> "null"]

\* the Problem the report translator makes of a report by ruleId at a node
\* (createReportTranslator is external; the node stands for its location)
ReportedProblem(ruleId, severity, node, type) ==
    [ruleId |-> ruleId,
     message |-> [template |-> "reported", ruleId |-> ruleId],
     line |-> node, column |-> 1, endLine |-> node, endColumn |-> 2,
     severity |-> severity,
     nodeType |-> type]

\* mutant of IsDisabled: disabled rules are loaded like the others
IsDisabledNever(severity) == FALSE

\* if (severity === 0) return
IsDisabled(severity) == severity = Num(0)

\* the selector an entry of the node queue is emitted under
\* (NodeEventGenerator.enterNode / leaveNode)
EventOf(tree, entry) ==
    Sel(tree.type[entry.node], IF entry.isEntering THEN "enter" ELSE "exit")

\* the listeners on the emitter a queue entry reaches, in registration order
Matching(em, event) == SelectSeq(em, LAMBDA l : l.selector = event)

\* the name of rule id n as a string, and node n as err.currentNode: its
\* start line is n
RuleName(n) == ToString(n)

NodeOf(tree, n) == [type |-> tree.type[n], line |-> ToString(n)]

\* enter(node, parent) { node.parent = parent; ... }: the parent each node
\* has after the traversal, 0 (null) for the root
ParentsWritten(tree) ==
    [n \in 1..Len(tree.type) |->
        IF \E m \in 1..Len(tree.kids) : \E k \in 1..Len(tree.kids[m]) : tree.kids[m][k] = n
        THEN CHOOSE m \in 1..Len(tree.kids) : \E k \in 1..Len(tree.kids[m]) : tree.kids[m][k] = n
        ELSE 0]

\* the loop of getAncestors: node.parent, its parent, ... up to the root
RECURSIVE AncestorsStartingAtParent(_, _)
AncestorsStartingAtParent(parents, node) ==
    IF parents[node] = 0 THEN <<>>
    ELSE <<parents[node]>> \o AncestorsStartingAtParent(parents, parents[node])

ReverseNodes(nodes) == [i \in 1..Len(nodes) |-> nodes[Len(nodes) + 1 - i]]

\* mutant of getAncestors: the list is returned as it was collected
getAncestorsFromParent(parents, node) == AncestorsStartingAtParent(parents, node)

\* getAncestors(node), with the parent fields the traversal wrote
getAncestors(parents, node) == ReverseNodes(AncestorsStartingAtParent(parents, node))

\* mutant of FactoriesDone: the queue is replayed once the first rule is through
FactoriesDoneAfterFirst(idx, rules) == idx > 1

\* nodeQueue.forEach comes after Object.keys(configuredRules).forEach has ended
FactoriesDone(idx, rules) == idx > Len(rules)

NoLog == [tree |-> [type |-> <<>>, kids |-> <<>>], parents |-> <<>>, dispatched |-> <<>>,
          created |-> <<>>, invoked |-> {}, thrower |-> 0,
          thrownAt |-> 0, thrown |-> "none", error |-> NoError]

RulesFrame == UNCHANGED <<fixVars, sevVars, repVars, verVars, travVars, moreVars>>

InitRules ==
    /\ rpc = "idle"
    /\ configuredRules = <<>>
    /\ ruleMap = [id \in RuleIds |-> NoRule]
    /\ nodeQueue = <<>>
    /\ ruleIdx = 0
    /\ queueIdx = 0
    /\ currentNode = 0
    /\ emitter = <<>>
    /\ lintingProblems = <<>>
    /\ rlog = NoLog

\* Linter.defineRule(ruleId, ruleModule), between passes
DefineRule ==
    /\ RulesFrame
    /\ rpc = "idle"
    /\ \E id \in RuleIds, m \in RuleModules : ruleMap' = [ruleMap EXCEPT ![id] = m]
    /\ UNCHANGED <<rpc, configuredRules, nodeQueue, ruleIdx, queueIdx, currentNode,
                   emitter, lintingProblems, rlog>>

\* runRules(sourceCode, configuredRules, ruleMapper, ...): the emitter, the
\* node queue filled by the traversal, lintingProblems
StartRunRules ==
    /\ RulesFrame
    /\ rpc = "idle"
    /\ \E c \in ConfiguredRuleLists, tree \in Trees :
        /\ configuredRules' = c
        /\ nodeQueue' = TraverseNode(tree, 1)
        /\ rlog' = [NoLog EXCEPT !.tree = tree, !.parents = ParentsWritten(tree)]
    /\ currentNode' = 1
    /\ emitter' = <<>>
    /\ lintingProblems' = <<>>
    /\ ruleIdx' = 1
    /\ queueIdx' = 0
    /\ rpc' = "rules"
    /\ UNCHANGED ruleMap

\* the body of Object.keys(configuredRules).forEach for one rule id
ConfigureRule ==
    /\ RulesFrame
    /\ rpc = "rules"
    /\ ruleIdx <= Len(configuredRules)
    /\ LET ruleId == configuredRules[ruleIdx].ruleId
           severity == getRuleSeverity(configuredRules[ruleIdx].config)
           rule == ruleMap[ruleId]
       IN IF IsDisabled(severity)
          THEN /\ ruleIdx' = ruleIdx + 1
               /\ UNCHANGED <<rpc, emitter, lintingProblems, rlog>>
          ELSE IF ~rule.defined
          THEN /\ lintingProblems' =
                      Append(lintingProblems, createLintingProblem([ruleId |-> ruleId]))
               /\ ruleIdx' = ruleIdx + 1
               /\ UNCHANGED <<rpc, emitter, rlog>>
          ELSE IF rule.createThrows
          THEN /\ rpc' = "thrown"
               /\ rlog' = [rlog EXCEPT
                              !.created = Append(@, ruleId),
                              !.thrower = ruleId,
                              !.thrown = "Error",
                              !.error = VerifyCatch(LoadingError(RuleName(ruleId)), Filename)]
               /\ UNCHANGED <<ruleIdx, emitter, lintingProblems>>
          ELSE /\ emitter' = emitter \o
                      [k \in 1..Len(rule.listens) |->
                          [ruleId |-> ruleId, severity |-> severity,
                           selector |-> rule.listens[k]]]
               /\ rlog' = [rlog EXCEPT !.created = Append(@, ruleId)]
               /\ ruleIdx' = ruleIdx + 1
               /\ UNCHANGED <<rpc, lintingProblems>>
    /\ UNCHANGED <<configuredRules, ruleMap, nodeQueue, queueIdx, currentNode>>

\* the body of nodeQueue.forEach for one entry: every listener the entry
\* reaches is called in turn; each may report, and one may throw a value (an
\* Error object, or null), which ends the pass: the value goes through the
\* catch blocks to the caller of the verification.  After the last entry
\* runRules returns lintingProblems.
DispatchNode ==
    /\ RulesFrame
    /\ rpc = "rules"
    /\ FactoriesDone(ruleIdx, configuredRules)
    /\ queueIdx < Len(nodeQueue)
    /\ LET q == queueIdx + 1
           entry == nodeQueue[q]
           reached == Matching(emitter, EventOf(rlog.tree, entry))
           k == Len(reached)
       IN \E throwAt \in 0..k, reporting \in SUBSET (1..k), thrown \in {"none", "Error", "null"} :
            LET called == IF throwAt = 0 THEN k ELSE throwAt
                reports == SelectSeq([i \in 1..k |-> i],
                                     LAMBDA i : i \in reporting /\ i <= called)
            IN /\ reporting \subseteq 1..called
               /\ throwAt \notin reporting
               /\ thrown = "none" <=> throwAt = 0
               /\ queueIdx' = q
               /\ currentNode' = entry.node
               /\ lintingProblems' = lintingProblems \o
                      [i \in 1..Len(reports) |->
                          ReportedProblem(reached[reports[i]].ruleId,
                                          reached[reports[i]].severity,
                                          entry.node, rlog.tree.type[entry.node])]
               /\ rlog' = [rlog EXCEPT
                              !.dispatched = Append(@, q),
                              !.invoked = @ \cup {<<reached[i].ruleId, q>> : i \in 1..called},
                              !.thrower = IF throwAt = 0 THEN @ ELSE reached[throwAt].ruleId,
                              !.thrownAt = IF throwAt = 0 THEN @ ELSE q,
                              !.thrown = thrown,
                              !.error =
                                  IF throwAt = 0 THEN @
                                  ELSE VerifyCatch(
                                          QueueCatch(
                                              HandlerCatch(ThrownValue(thrown),
                                                           RuleName(reached[throwAt].ruleId)),
                                              NodeOf(rlog.tree, entry.node)),
                                          Filename)]
               /\ rpc' = IF throwAt # 0 THEN "thrown"
                         ELSE IF q = Len(nodeQueue) THEN "done"
                         ELSE "rules"
    /\ UNCHANGED <<configuredRules, ruleMap, nodeQueue, ruleIdx, emitter>>

\* runRules has returned lintingProblems, or its error has reached the
\* caller: the pass and all it built are gone, the defined rules stay
EndRunRules ==
    /\ RulesFrame
    /\ rpc \in {"done", "thrown"}
    /\ rpc' = "idle"
    /\ configuredRules' = <<>>
    /\ nodeQueue' = <<>>
    /\ ruleIdx' = 0
    /\ queueIdx' = 0
    /\ currentNode' = 0
    /\ emitter' = <<>>
    /\ lintingProblems' = <<>>
    /\ rlog' = NoLog
    /\ UNCHANGED ruleMap

NextRules == DefineRule \/ StartRunRules \/ ConfigureRule \/ DispatchNode \/ EndRunRules

-----------------------------------------------------------------------------
(* context.report: one listener call of a pass, from the call of the       *)
(* listener to the Problem list or to the error the caller of the pass     *)
(* gets                                                                    *)

\* the rule that owns the listener, the node it is called for (with
\* node.loc.start.line) and options.filename
ListenerRuleId == "rule-a"

OtherRuleId == "rule-b"

ListenerNode == [type |-> "Program", line |-> "3"]

\* rule.meta: undefined, or an object with fixable, hasSuggestions and docs
NoMeta == [present |-> FALSE, fixable |-> Undefined, hasSuggestions |-> Undefined,
           docs |-> Undefined]

\* meta.docs = { suggestion: true }, the former spelling of the flag
DocsWithSuggestion == [t |-> "object", v |-> 2]

FixableValues ==
    {Undefined, Str(<<"c", "o", "d", "e">>),
     Str(<<"w", "h", "i", "t", "e", "s", "p", "a", "c", "e">>),
     Str(<<"l", "a", "y", "o", "u", "t">>), Str(<<>>), Bool(TRUE)}

HasSuggestionsValues == {Undefined, Bool(TRUE), Bool(FALSE), Str(<<"t", "r", "u", "e">>)}

DocsValues == {Undefined, Obj, DocsWithSuggestion}

MetaValues ==
    {NoMeta} \cup
    [present : {TRUE}, fixable : FixableValues, hasSuggestions : HasSuggestionsValues,
     docs : DocsValues]

\* What the listener does when it is called: nothing, one context.report
\* (with or without a fix, with or without suggestions), or a throw of a
\* value (an Error object, or null).
Quiet == [act |-> "quiet", fix |-> FALSE, suggestions |-> FALSE, thrown |-> "none"]

Descriptors ==
    {Quiet} \cup
    [act : {"report"}, fix : BOOLEAN, suggestions : BOOLEAN, thrown : {"none"}] \cup
    [act : {"throw"}, fix : {FALSE}, suggestions : {FALSE}, thrown : {"Error", "null"}]

FixableMessage ==
    "Fixable rules must set the 'meta.fixable' property to 'code' or 'whitespace'."

HasSuggestionsMessage ==
    "Rules with suggestions must set the 'meta.hasSuggestions' property to 'true'."

DeprecatedSuggestionMessage ==
    "Rules with suggestions must set the 'meta.hasSuggestions' property to 'true'. 'meta.docs.suggestion' is ignored by ESLint."

\* reportTranslator(...args): the Problem of a report.  With disableFixes
\* the translator emits neither fix nor suggestions.
TranslatedProblem(ruleId, d, noFixes) ==
    [ruleId |-> ruleId, fix |-> d.fix /\ ~noFixes, suggestions |-> d.suggestions /\ ~noFixes]

PlainProblem(ruleId) == [ruleId |-> ruleId, fix |-> FALSE, suggestions |-> FALSE]

\* mutant of FixRejected: a fix is accepted without looking at meta.fixable
FixRejectedNever(meta, problem) == FALSE

\* problem.fix && !(rule.meta?.fixable)
FixRejected(meta, problem) == problem.fix /\ ~Truthy(meta.fixable)

\* mutant of SuggestionsRejected: any truthy meta.hasSuggestions will do
SuggestionsRejectedLoose(meta, problem) ==
    problem.suggestions /\ ~(meta.present /\ Truthy(meta.hasSuggestions))

\* problem.suggestions && !(rule.meta && rule.meta.hasSuggestions === true)
SuggestionsRejected(meta, problem) ==
    problem.suggestions /\ ~(meta.present /\ meta.hasSuggestions = Bool(TRUE))

\* rule.meta && rule.meta.docs && typeof rule.meta.docs.suggestion !== "undefined"
DeclaresDeprecatedFlag(meta) ==
    meta.present /\ Truthy(meta.docs) /\ meta.docs = DocsWithSuggestion

\* the message of the error report() throws for a Problem, "" when it
\* pushes the Problem
ReportError(meta, problem) ==
    IF FixRejected(meta, problem) THEN FixableMessage
    ELSE IF SuggestionsRejected(meta, problem)
    THEN (IF DeclaresDeprecatedFlag(meta) THEN DeprecatedSuggestionMessage
          ELSE HasSuggestionsMessage)
    ELSE ""

ReportFrame == UNCHANGED <<fixVars, ruleVars, sevVars, verVars, travVars, moreVars>>

InitReport ==
    /\ lpc = "idle"
    /\ ruleMeta = NoMeta
    /\ descriptor = Quiet
    /\ disableFixes = FALSE
    /\ reported = <<>>
    /\ err = NoError

\* the emitter calls a listener of the rule; the pass may already hold a
\* Problem of another rule
CallListener ==
    /\ ReportFrame
    /\ lpc = "idle"
    /\ ruleMeta' \in MetaValues
    /\ descriptor' \in Descriptors
    /\ disableFixes' \in BOOLEAN
    /\ reported' \in {<<>>, <<PlainProblem(OtherRuleId)>>}
    /\ err' = NoError
    /\ lpc' = "listener"

\* the listener runs: it returns, throws its value, or calls report(), which
\* pushes the Problem or throws
ListenerBody ==
    /\ ReportFrame
    /\ lpc = "listener"
    /\ LET problem == TranslatedProblem(ListenerRuleId, descriptor, disableFixes)
       IN CASE descriptor.act = "quiet" ->
                 /\ lpc' = "pushed"
                 /\ UNCHANGED <<reported, err>>
            [] descriptor.act = "throw" ->
                 /\ err' = ThrownValue(descriptor.thrown)
                 /\ lpc' = "handler"
                 /\ UNCHANGED reported
            [] OTHER ->
                 IF ReportError(ruleMeta, problem) = ""
                 THEN /\ reported' = Append(reported, problem)
                      /\ lpc' = "pushed"
                      /\ UNCHANGED err
                 ELSE /\ err' = ErrorOf("Error", ReportError(ruleMeta, problem))
                      /\ lpc' = "handler"
                      /\ UNCHANGED reported
    /\ UNCHANGED <<ruleMeta, descriptor, disableFixes>>

\* the wrapper addRuleErrorHandler put around the listener catches the error
RuleErrorHandler ==
    /\ ReportFrame
    /\ lpc = "handler"
    /\ err' = HandlerCatch(err, ListenerRuleId)
    /\ lpc' = "queue"
    /\ UNCHANGED <<ruleMeta, descriptor, disableFixes, reported>>

\* the catch block around enterNode / leaveNode
QueueCatchStep ==
    /\ ReportFrame
    /\ lpc = "queue"
    /\ err' = QueueCatch(err, ListenerNode)
    /\ lpc' = "verify"
    /\ UNCHANGED <<ruleMeta, descriptor, disableFixes, reported>>

\* the catch block around runRules; the error then reaches the caller
VerifyCatchStep ==
    /\ ReportFrame
    /\ lpc = "verify"
    /\ err' = VerifyCatch(err, Filename)
    /\ lpc' = "thrown"
    /\ UNCHANGED <<ruleMeta, descriptor, disableFixes, reported>>

\* the listener has returned and the pass goes on to its end: runRules
\* returns lintingProblems
PassReturns ==
    /\ ReportFrame
    /\ lpc = "pushed"
    /\ lpc' = "returned"
    /\ UNCHANGED <<ruleMeta, descriptor, disableFixes, reported, err>>

\* the call of the pass is over; its Problem list and its error are gone
PassOver ==
    /\ ReportFrame
    /\ lpc \in {"returned", "thrown"}
    /\ lpc' = "idle"
    /\ ruleMeta' = NoMeta
    /\ descriptor' = Quiet
    /\ disableFixes' = FALSE
    /\ reported' = <<>>
    /\ err' = NoError

NextReport ==
    \/ CallListener
    \/ ListenerBody
    \/ RuleErrorHandler
    \/ QueueCatchStep
    \/ VerifyCatchStep
    \/ PassReturns
    \/ PassOver

-----------------------------------------------------------------------------
(* Linter.#verifyWithoutProcessors: one verification call *)

\* longest Problem list runRules returns to the call
MaxProblems == 3

\* The arguments of a call, as far as the call looks at them:
\*   source  a string, a SourceCode with a scopeManager, or one without
\*   parser  config.parser: null, an object, or a string that is or is not
\*           a key of slots.parserMap
\*   parses  whether the parser accepts the text
VerifyInputs ==
    [source : {"text", "sourceCode", "bareSourceCode"},
     parser : {"null", "object", "registered", "unregistered"},
     parses : BOOLEAN]

\* the Problem of a parser name that is not registered
UnknownParserProblem ==
    [ruleId |-> "null", fatal |-> TRUE, severity |-> 2,
     message |-> "Configured parser '${config.parser}' was not found.",
     line |-> 0, column |-> 0]

\* parse(): the error of the result when the parser threw
ParseFailureProblem ==
    [ruleId |-> "null", fatal |-> TRUE, severity |-> 2,
     message |-> "Parsing error: ${ex.message}",
     line |-> "ex.lineNumber", column |-> "ex.column"]

\* mutant of ParserMissing: every parser name is taken as registered
ParserMissingNever(input) == FALSE

\* typeof config.parser === "string" && !slots.parserMap.has(config.parser)
ParserMissing(input) == input.parser = "unregistered"

\* mutant of ParseSucceeded: the result of parse() is not looked at
ParseSucceededAlways(input) == TRUE

\* parseResult.success
ParseSucceeded(input) == input.parses

\* Problems runRules can return: of two rules, at three places of the text
RuleIdsOfPass == {ListenerRuleId, OtherRuleId}

PositionsOfPass ==
    {[line |-> 1, column |-> 1], [line |-> 1, column |-> 2], [line |-> 2, column |-> 1]}

ProblemsOfPass ==
    {[ruleId |-> r, line |-> p.line, column |-> p.column] :
        r \in RuleIdsOfPass, p \in PositionsOfPass}

ProblemLists == SeqsUpTo(ProblemsOfPass, MaxProblems)

\* mutant of CompareProblems: the column is not compared
CompareProblemsLineOnly(problemA, problemB) == problemA.line - problemB.line

\* (problemA, problemB) => problemA.line - problemB.line || problemA.column - problemB.column
CompareProblems(problemA, problemB) ==
    IF problemA.line - problemB.line # 0
    THEN problemA.line - problemB.line
    ELSE problemA.column - problemB.column

\* Array.prototype.sort(compare), which is stable: x goes in front of the
\* first element that compares greater than it
InsertSorted(sorted, x) ==
    LET before == {i \in 1..Len(sorted) : CompareProblems(x, sorted[i]) < 0}
        at == IF before = {} THEN Len(sorted) + 1
              ELSE CHOOSE i \in before : \A j \in before : i <= j
    IN SubSeq(sorted, 1, at - 1) \o <<x>> \o SubSeq(sorted, at, Len(sorted))

RECURSIVE SortProblems(_)
SortProblems(problems) ==
    IF problems = <<>> THEN <<>>
    ELSE InsertSorted(SortProblems(SubSeq(problems, 1, Len(problems) - 1)),
                      problems[Len(problems)])

\* commentDirectives of the call: no Problems and no directives
CommentDirectiveProblems == <<>>

DisableDirectives == <<>>

\* applyDisableDirectives({directives, problems, ...}): a Problem on the line
\* of a directive is removed, the others stay in their order
ApplyDisableDirectives(directives, problems) ==
    SelectSeq(problems, LAMBDA p : ~ \E i \in 1..Len(directives) : directives[i].line = p.line)

VerifyFrame == UNCHANGED <<fixVars, ruleVars, sevVars, repVars, travVars, moreVars>>

NoInput == [source |-> "text", parser |-> "null", parses |-> TRUE]

InitVerify ==
    /\ vpc = "idle"
    /\ vinput = NoInput
    /\ lastSourceCode = "null"
    /\ stages = <<>>
    /\ produced = <<>>
    /\ handed = <<>>
    /\ vresult = <<>>

\* #verifyWithoutProcessors(textOrSourceCode, providedConfig, providedOptions):
\* the arguments are evaluated and slots.lastSourceCode is set from them
VerifyCall ==
    /\ VerifyFrame
    /\ vpc \in {"idle", "returned", "thrown"}
    /\ \E input \in VerifyInputs :
        /\ vinput' = input
        /\ lastSourceCode' = IF input.source = "text" THEN "null" ELSE input.source
    /\ stages' = <<>>
    /\ produced' = <<>>
    /\ handed' = <<>>
    /\ vresult' = <<>>
    /\ vpc' = "parser"

\* Resolve parser: a name that is not registered ends the call
ResolveParser ==
    /\ VerifyFrame
    /\ vpc = "parser"
    /\ IF ParserMissing(vinput)
       THEN /\ vresult' = <<UnknownParserProblem>>
            /\ vpc' = "returned"
       ELSE /\ vpc' = "parse"
            /\ UNCHANGED vresult
    /\ UNCHANGED <<vinput, lastSourceCode, stages, produced, handed>>

\* mutant of NeedsParse: a SourceCode without scopeManager is parsed again
NeedsParseOrScope(last) == last \in {"null", "bareSourceCode"}

\* if (!slots.lastSourceCode)
NeedsParse(last) == last = "null"

\* if (!slots.lastSourceCode) parse the text, else analyze the scope of a
\* SourceCode that has no scopeManager
ParseStep ==
    /\ VerifyFrame
    /\ vpc = "parse"
    /\ IF NeedsParse(lastSourceCode)
       THEN /\ stages' = Append(stages, "parse")
            /\ IF ParseSucceeded(vinput)
               THEN /\ lastSourceCode' = "parsed"
                    /\ vpc' = "globals"
                    /\ UNCHANGED vresult
               ELSE /\ vresult' = <<ParseFailureProblem>>
                    /\ vpc' = "returned"
                    /\ UNCHANGED lastSourceCode
       ELSE /\ IF lastSourceCode = "bareSourceCode"
               THEN /\ stages' = Append(stages, "analyzeScope")
                    /\ lastSourceCode' = "rebuiltSourceCode"
               ELSE UNCHANGED <<stages, lastSourceCode>>
            /\ vpc' = "globals"
            /\ UNCHANGED vresult
    /\ UNCHANGED <<vinput, produced, handed>>

\* addDeclaredGlobals(sourceCode.scopeManager.scopes[0], ...)
AugmentGlobals ==
    /\ VerifyFrame
    /\ vpc = "globals"
    /\ stages' = Append(stages, "addDeclaredGlobals")
    /\ vpc' = "rules"
    /\ UNCHANGED <<vinput, lastSourceCode, produced, handed, vresult>>

\* try { lintingProblems = runRules(...) } catch (err) { ...; throw err }
RunRulesStep ==
    /\ VerifyFrame
    /\ vpc = "rules"
    /\ stages' = Append(stages, "runRules")
    /\ \/ /\ produced' \in ProblemLists
          /\ vpc' = "sort"
       \/ /\ vpc' = "thrown"
          /\ UNCHANGED produced
    /\ UNCHANGED <<vinput, lastSourceCode, handed, vresult>>

\* return applyDisableDirectives({ problems: lintingProblems.concat(...).sort(...) })
SortAndResolve ==
    /\ VerifyFrame
    /\ vpc = "sort"
    /\ handed' = SortProblems(produced \o CommentDirectiveProblems)
    /\ stages' = Append(stages, "applyDisableDirectives")
    /\ vresult' = ApplyDisableDirectives(DisableDirectives, handed')
    /\ vpc' = "returned"
    /\ UNCHANGED <<vinput, lastSourceCode, produced>>

NextVerify ==
    \/ VerifyCall
    \/ ResolveParser
    \/ ParseStep
    \/ AugmentGlobals
    \/ RunRulesStep
    \/ SortAndResolve

-----------------------------------------------------------------------------
(* Traverser: traverse() and the recursion of #traverse, one step per      *)
(* callback and per turn of the child loop                                 *)

\* Trees given to traverse().  Node 1 is the root.  kids[n] lists, in key
\* order and array order, the values under the visitor keys of node n: a
\* node, or 0 for a value that is no node (null).  A node that is in no
\* kids list hangs under a key the key map does not name.
TraversalTrees ==
    {[type |-> <<"Program">>, kids |-> <<(<<>>)>>],
     [type |-> <<"Program", "A", "B">>, kids |-> <<(<<2>>), (<<0, 3>>), (<<>>)>>],
     [type |-> <<"Program", "A", "B", "A", "B", "C">>,
      kids |-> <<(<<2, 0, 4>>), (<<3>>), (<<>>), (<<5>>), (<<>>), (<<>>)>>]}

NoTree == [type |-> <<>>, kids |-> <<>>]

\* what a callback does with the traverser while it runs: nothing, skip(),
\* break(), or both; an enter callback may also do parents().pop()
EnterCalls == {"none", "skip", "break", "both", "pop"}

LeaveCalls == {"none", "skip", "break", "both"}

\* isNode(x)
isNode(x) == x # 0

\* traverse(): the fields are reset
FreshTraverser == [current |-> 0, parents |-> <<>>, skipped |-> FALSE, broken |-> FALSE]

\* current()
CurrentOf(tr) == tr.current

\* mutant of ParentsSlice: the array of the instance itself is returned
ParentsLive(tr) == [live |-> TRUE, nodes |-> tr.parents]

\* parents(): this.#parents.slice(0), a new array with the same nodes
ParentsSlice(tr) == [live |-> FALSE, nodes |-> tr.parents]

\* skip() / break() called by a callback, or the last element taken off the
\* array parents() returned
AfterCall(tr, call) ==
    CASE call = "skip" -> [tr EXCEPT !.skipped = TRUE]
      [] call = "break" -> [tr EXCEPT !.broken = TRUE]
      [] call = "both" -> [tr EXCEPT !.skipped = TRUE, !.broken = TRUE]
      [] call = "pop" -> IF ParentsSlice(tr).live
                         THEN [tr EXCEPT !.parents = SubSeq(@, 1, Len(@) - 1)]
                         ELSE tr
      [] OTHER -> tr

\* mutant of SkippedBeforeEnter: the flag of an earlier skip() is kept
SkippedBeforeEnterKept(tr) == tr.skipped

\* this.#skipped = false, before the enter callback
SkippedBeforeEnter(tr) == FALSE

\* if (!this.#skipped && !this.#broken), with keys.length >= 1
Descends(tr, kids) == ~tr.skipped /\ ~tr.broken /\ Len(kids) >= 1

\* mutant of ChildLoopContinues: the last value is left out
ChildLoopContinuesShort(tr, idx, kids) == idx < Len(kids) /\ ~tr.broken

\* the condition of the loops over the keys and the array elements
ChildLoopContinues(tr, idx, kids) == idx <= Len(kids) /\ ~tr.broken

\* mutant of LeaveAllowed: leave is called in a broken traversal too
LeaveAllowedAlways(tr) == TRUE

\* if (!this.#broken) this.#leave(node, parent)
LeaveAllowed(tr) == ~tr.broken

\* mutant of ChildAt: the values are taken from the last to the first
ChildAtFromEnd(kids, idx) == kids[Len(kids) + 1 - idx]

\* node[keys[i]], child[j]: the idx-th value under the keys of the node
ChildAt(kids, idx) == kids[idx]

Frame(node, parent) == [node |-> node, parent |-> parent, phase |-> "enter", idx |-> 1]

TopFrame == tstack[Len(tstack)]

Pop(stack) == SubSeq(stack, 1, Len(stack) - 1)

ReplaceTop(stack, frame) == [stack EXCEPT ![Len(stack)] = frame]

\* the position after a call of #traverse has returned
AfterReturn(stack) == IF stack = <<>> THEN "done" ELSE "running"

TraverseFrame == UNCHANGED <<fixVars, ruleVars, sevVars, repVars, verVars, moreVars>>

\* mutant of ResetTraverser: the flag of an earlier break() is kept
ResetKeepsBroken(tr) == [FreshTraverser EXCEPT !.broken = tr.broken]

\* traverse(): this.#current = null, this.#parents = [], this.#skipped =
\* false, this.#broken = false, whatever the fields were
ResetTraverser(tr) == FreshTraverser

\* no traverse() call was made on the instance yet
NeverTraversed == [used |-> FALSE, skipped |-> FALSE, broken |-> FALSE]

InitTraverse ==
    /\ tpc = "idle"
    /\ ttree = NoTree
    /\ traverser = FreshTraverser
    /\ tstack = <<>>
    /\ tlog = <<>>
    /\ tprev = NeverTraversed

\* traverse(node, options): reset, then this.#traverse(node, null)
Traverse ==
    /\ TraverseFrame
    /\ tpc \in {"idle", "done"}
    /\ ttree' \in TraversalTrees
    /\ traverser' = ResetTraverser(traverser)
    /\ tprev' = [used |-> tpc = "done", skipped |-> traverser.skipped,
                 broken |-> traverser.broken]
    /\ tstack' = <<Frame(1, 0)>>
    /\ tlog' = <<>>
    /\ tpc' = "running"

\* #traverse(node, parent) up to the test after the enter callback
EnterNode ==
    /\ TraverseFrame
    /\ tpc = "running"
    /\ TopFrame.phase = "enter"
    /\ LET f == TopFrame
       IN IF ~isNode(f.node)
          THEN /\ tstack' = Pop(tstack)
               /\ tpc' = AfterReturn(tstack')
               /\ UNCHANGED <<traverser, tlog>>
          ELSE \E call \in EnterCalls :
                 LET set == [traverser EXCEPT !.current = f.node,
                                              !.skipped = SkippedBeforeEnter(traverser)]
                     tr == AfterCall(set, call)
                     kids == ttree.kids[f.node]
                 IN /\ tlog' = Append(tlog, [kind |-> "enter", node |-> f.node,
                                             parent |-> f.parent, call |-> call,
                                             current |-> CurrentOf(set),
                                             parents |-> ParentsSlice(set).nodes])
                    /\ IF Descends(tr, kids)
                       THEN /\ traverser' = [tr EXCEPT !.parents = Append(@, f.node)]
                            /\ tstack' = ReplaceTop(tstack, [f EXCEPT !.phase = "children"])
                       ELSE /\ traverser' = tr
                            /\ tstack' = ReplaceTop(tstack, [f EXCEPT !.phase = "leave"])
                    /\ tpc' = "running"
    /\ UNCHANGED <<ttree, tprev>>

\* one turn of the loop over the children: the recursive call for the next
\* value, or the end of the loop and this.#parents.pop()
VisitChild ==
    /\ TraverseFrame
    /\ tpc = "running"
    /\ TopFrame.phase = "children"
    /\ LET f == TopFrame
           kids == ttree.kids[f.node]
       IN IF ChildLoopContinues(traverser, f.idx, kids)
          THEN /\ tstack' = Append(ReplaceTop(tstack, [f EXCEPT !.idx = @ + 1]),
                                   Frame(ChildAt(kids, f.idx), f.node))
               /\ UNCHANGED traverser
          ELSE /\ tstack' = ReplaceTop(tstack, [f EXCEPT !.phase = "leave"])
               /\ traverser' = [traverser EXCEPT !.parents = Pop(@)]
    /\ UNCHANGED <<tpc, ttree, tlog, tprev>>

\* the leave callback unless broken, this.#current = parent, return
LeaveNode ==
    /\ TraverseFrame
    /\ tpc = "running"
    /\ TopFrame.phase = "leave"
    /\ LET f == TopFrame
       IN /\ IF LeaveAllowed(traverser)
             THEN \E call \in LeaveCalls :
                    /\ tlog' = Append(tlog, [kind |-> "leave", node |-> f.node,
                                             parent |-> f.parent, call |-> call,
                                             current |-> CurrentOf(traverser),
                                             parents |-> ParentsSlice(traverser).nodes])
                    /\ traverser' = [AfterCall(traverser, call) EXCEPT !.current = f.parent]
             ELSE /\ traverser' = [traverser EXCEPT !.current = f.parent]
                  /\ UNCHANGED tlog
          /\ tstack' = Pop(tstack)
          /\ tpc' = AfterReturn(tstack')
    /\ UNCHANGED <<ttree, tprev>>

NextTraverse == Traverse \/ EnterNode \/ VisitChild \/ LeaveNode

-----------------------------------------------------------------------------
(* Token store cursors: the factory of cursors.js, the base cursors and the *)
(* decorators.  One action per call of createCursor and of moveNext         *)

\* longest token/comment sequence, largest skip and largest count
MaxItems == 2

MaxSkip == 2

MaxCount == 2

\* calls of moveNext() made on one cursor: past the end of every sequence
MaxCalls == MaxItems + 2

\* The tokens and comments of a text in source order: item i is position i,
\* kinds[i] says whether it is a token or a comment
ItemKinds == SeqsUpTo({"token", "comment"}, MaxItems)

\* the filter argument: null, or a predicate (the set of items it accepts)
NoFilter == [given |-> FALSE, accepts |-> {}]

Filters == {NoFilter} \cup {[given |-> TRUE, accepts |-> a] : a \in SUBSET (1..MaxItems)}

\* what the base cursor iterates: the tokens, or the tokens and the comments
ItemsOf(kinds, includeComments) ==
    SelectSeq([i \in 1..Len(kinds) |-> i],
              LAMBDA i : includeComments \/ kinds[i] = "token")

\* The arguments of createCursor.  first and last are the indexes
\* utils.getFirstIndex and utils.getLastIndex find for startLoc and endLoc.
CursorInputs ==
    {input \in [kinds : ItemKinds, forward : BOOLEAN, includeComments : BOOLEAN,
                first : 1..(MaxItems + 1), last : 0..MaxItems,
                filter : Filters, skip : 0..MaxSkip, count : (-1)..MaxCount] :
        LET n == Len(ItemsOf(input.kinds, input.includeComments))
        IN input.first <= n + 1 /\ input.last <= n /\ input.first <= input.last + 1}

\* createBaseCursor: new Cursor(tokens, comments, indexMap, startLoc, endLoc).
\* The backward cursor starts at the last index and ends at the first; the
\* forward cursor the other way round.  current is 0 (null) before a value.
createBaseCursor(input) ==
    [items |-> ItemsOf(input.kinds, input.includeComments),
     forward |-> input.forward,
     index |-> IF input.forward THEN input.first ELSE input.last,
     indexEnd |-> IF input.forward THEN input.last ELSE input.first,
     current |-> 0,
     layers |-> <<>>]

\* new FilterCursor(cursor, predicate), new SkipCursor(cursor, count),
\* new LimitCursor(cursor, count): a decorator around the cursor so far
FilterCursor(c, predicate) ==
    [c EXCEPT !.layers = Append(@, [kind |-> "filter", count |-> 0, accepts |-> predicate.accepts])]

SkipCursor(c, count) ==
    [c EXCEPT !.layers = Append(@, [kind |-> "skip", count |-> count, accepts |-> {}])]

LimitCursor(c, count) ==
    [c EXCEPT !.layers = Append(@, [kind |-> "limit", count |-> count, accepts |-> {}])]

\* if (filter)
FilterWanted(filter) == filter.given

\* mutant of SkipWanted: a skip of one is not decorated
SkipWantedFromTwo(skip) == skip >= 2

\* if (skip >= 1)
SkipWanted(skip) == skip >= 1

\* mutant of LimitWanted: a count of zero is not decorated
LimitWantedPositive(count) == count >= 1

\* if (count >= 0)
LimitWanted(count) == count >= 0

createCursor(input) ==
    LET base == createBaseCursor(input)
        filtered == IF FilterWanted(input.filter) THEN FilterCursor(base, input.filter) ELSE base
        skipped == IF SkipWanted(input.skip) THEN SkipCursor(filtered, input.skip) ELSE filtered
    IN IF LimitWanted(input.count) THEN LimitCursor(skipped, input.count) ELSE skipped

\* moveNext() of a call: the cursor after it and the value it returned
Moved(c, ret) == [c |-> c, ret |-> ret]

\* mutant of BackwardMoveNext: the first index of the range is left out
BackwardMoveNextExclusive(c) ==
    IF c.index > c.indexEnd
    THEN Moved([c EXCEPT !.current = c.items[c.index], !.index = @ - 1], TRUE)
    ELSE Moved(c, FALSE)

\* BackwardTokenCursor.moveNext
BackwardMoveNext(c) ==
    IF c.index >= c.indexEnd
    THEN Moved([c EXCEPT !.current = c.items[c.index], !.index = @ - 1], TRUE)
    ELSE Moved(c, FALSE)

\* the forward base cursor
ForwardMoveNext(c) ==
    IF c.index <= c.indexEnd
    THEN Moved([c EXCEPT !.current = c.items[c.index], !.index = @ + 1], TRUE)
    ELSE Moved(c, FALSE)

RECURSIVE MoveNextAt(_, _)
RECURSIVE FilterMoveNext(_, _)
RECURSIVE SkipMoveNext(_, _)

\* Filter: values the predicate rejects are passed over
FilterMoveNext(c, i) ==
    LET r == MoveNextAt(c, i - 1)
    IN IF ~r.ret THEN r
       ELSE IF r.c.current \in c.layers[i].accepts THEN r
       ELSE FilterMoveNext(r.c, i)

\* Skip: the first count values of the wrapped cursor are discarded
SkipMoveNext(c, i) ==
    IF c.layers[i].count > 0
    THEN LET r == MoveNextAt([c EXCEPT !.layers[i].count = @ - 1], i - 1)
         IN IF ~r.ret THEN r ELSE SkipMoveNext(r.c, i)
    ELSE MoveNextAt(c, i - 1)

\* Limit: after count values there is no further value
LimitMoveNext(c, i) ==
    IF c.layers[i].count > 0
    THEN MoveNextAt([c EXCEPT !.layers[i].count = @ - 1], i - 1)
    ELSE Moved(c, FALSE)

\* moveNext() of layer i of the cursor; layer 0 is the base cursor.  A
\* decorator takes current from the cursor it wraps (DecorativeCursor).
MoveNextAt(c, i) ==
    IF i = 0 THEN (IF c.forward THEN ForwardMoveNext(c) ELSE BackwardMoveNext(c))
    ELSE CASE c.layers[i].kind = "filter" -> FilterMoveNext(c, i)
           [] c.layers[i].kind = "skip" -> SkipMoveNext(c, i)
           [] OTHER -> LimitMoveNext(c, i)

NoCursorInput ==
    [kinds |-> <<>>, forward |-> TRUE, includeComments |-> FALSE, first |-> 1,
     last |-> 0, filter |-> NoFilter, skip |-> 0, count |-> -1]

NothingYielded == [values |-> <<>>, calls |-> 0, firstReturn |-> "none"]

CursorFrame == UNCHANGED <<earlyVars, regVars, ctxVars, prepVars, globVars, cliVars, histVars>>

InitCursor ==
    /\ cpc = "idle"
    /\ cinput = NoCursorInput
    /\ cursor = createBaseCursor(NoCursorInput)
    /\ yielded = NothingYielded

\* factory.createCursor(tokens, comments, indexMap, startLoc, endLoc,
\* includeComments, filter, skip, count)
CreateCursor ==
    /\ CursorFrame
    /\ cpc = "idle"
    /\ \E input \in CursorInputs :
        /\ cinput' = input
        /\ cursor' = createCursor(input)
    /\ yielded' = NothingYielded
    /\ cpc' = "created"

\* cursor.moveNext(), and cursor.current read when it returned true
MoveNext ==
    /\ CursorFrame
    /\ cpc = "created"
    /\ yielded.calls < MaxCalls
    /\ LET r == MoveNextAt(cursor, Len(cursor.layers))
       IN /\ cursor' = r.c
          /\ yielded' =
               [values |-> IF r.ret THEN Append(yielded.values, r.c.current)
                           ELSE yielded.values,
                calls |-> yielded.calls + 1,
                firstReturn |-> IF yielded.calls = 0
                                THEN (IF r.ret THEN "value" ELSE "no value")
                                ELSE yielded.firstReturn]
    /\ UNCHANGED <<cpc, cinput>>

NextCursor == CreateCursor \/ MoveNext

-----------------------------------------------------------------------------
(* One Linter instance: Rules (rules.js), defineRule, defineRules,          *)
(* defineParser, getRules, and what a verification leaves in the slots      *)

\* registrations of rules made on one instance
MaxDefines == 3

\* rule ids; "7" is an integer index as a property key
EngineRuleIds == {"a", "b", "7"}

IntegerKeys == {"7"}

\* A rule module: an old-style function, or an object with a create method.
\* props are its other own enumerable properties.
FunctionNames == {"f1", "f2"}

NoRuleModule == [type |-> "null", fn |-> "none", create |-> "none", props |-> {}]

RuleFunctions ==
    {[type |-> "function", fn |-> "f2", create |-> "none", props |-> {"schema"}]}

RuleObjects ==
    {[type |-> "object", fn |-> "none", create |-> "f1", props |-> {"meta"}]}

EngineRuleModules == RuleFunctions \cup RuleObjects

\* mutant of normalizeRule: the module is stored as it was given
normalizeRuleAsGiven(rule) == rule

\* typeof rule === "function" ? Object.assign({ create: rule }, rule) : rule
normalizeRule(rule) ==
    IF rule.type = "function"
    THEN [type |-> "object", fn |-> "none", create |-> rule.fn, props |-> rule.props]
    ELSE rule

\* the position of key id among the properties of #rules, 0 when absent
IndexOfKey(rules, id) ==
    IF \E i \in 1..Len(rules) : rules[i].id = id
    THEN CHOOSE i \in 1..Len(rules) : rules[i].id = id
    ELSE 0

\* Rules.define: this.#rules[ruleId] = normalizeRule(ruleModule).  #rules is
\* the list of its properties in creation order.
define(rules, ruleId, ruleModule) ==
    LET at == IndexOfKey(rules, ruleId)
        entry == [id |-> ruleId, rule |-> normalizeRule(ruleModule)]
    IN IF at = 0 THEN Append(rules, entry) ELSE [rules EXCEPT ![at] = entry]

\* Rules.get
get(rules, ruleId) ==
    LET at == IndexOfKey(rules, ruleId)
    IN IF at # 0 THEN rules[at].rule ELSE NoRuleModule

\* Object.keys / Object.getOwnPropertyNames of an object whose properties
\* were created in the order of props: integer indexes first, then the
\* string keys in creation order
OwnKeys(props) ==
    SelectSeq(props, LAMBDA e : e.id \in IntegerKeys)
    \o SelectSeq(props, LAMBDA e : e.id \notin IntegerKeys)

\* Rules[Symbol.iterator]: [ruleId, this.get(ruleId)] for each key
IterateRules(rules) ==
    LET keys == OwnKeys(rules)
    IN [i \in 1..Len(keys) |-> [id |-> keys[i].id, rule |-> get(rules, keys[i].id)]]

RECURSIVE DefineAll(_, _)
DefineAll(rules, entries) ==
    IF entries = <<>> THEN rules
    ELSE DefineAll(define(rules, entries[1].id, entries[1].rule), Tail(entries))

\* the argument of defineRules: an object with up to two rules, as the
\* list of its properties in creation order
RulesToDefine ==
    {m \in SeqsUpTo([id : EngineRuleIds, rule : EngineRuleModules], 2) :
        \A i, j \in 1..Len(m) : m[i].id = m[j].id => i = j}

\* the config argument of verifyAndFix: missing, an object without
\* baseConfig, or a config array
EngineConfigs == {"undefined", "no baseConfig", "config array"}

\* #verifyWithConfigArray reads conf.env and conf.baseConfig.parserOptions
\* before it stores the object it builds in slots.lastConfigArray
StoresConfig(config) == config = "config array"

\* the object #verifyWithConfigArray builds has no pluginRules
WantedConfig == [pluginRules |-> "undefined"]

NoConfigArray == [pluginRules |-> "null"]

NothingGot == [call |-> "none", id |-> "none", threw |-> FALSE, entries |-> <<>>,
               rule |-> NoRuleModule]

\* getRules(): new Map(function* () { yield* ruleMap; if (lastConfigArray)
\* yield* lastConfigArray.pluginRules }()); yield* of undefined throws
getRulesResult(sl) ==
    IF sl.lastConfigArray # NoConfigArray /\ sl.lastConfigArray.pluginRules = "undefined"
    THEN [NothingGot EXCEPT !.call = "getRules", !.threw = TRUE]
    ELSE [NothingGot EXCEPT !.call = "getRules", !.entries = IterateRules(sl.ruleMap)]

EngineFrame == UNCHANGED <<earlyVars, curVars, ctxVars, prepVars, globVars, cliVars, histVars>>

\* the constructor
InitEngine ==
    /\ epc = "constructed"
    /\ slots = [ruleMap |-> <<>>, parserMap |-> {"espree"}, lastConfigArray |-> NoConfigArray]
    /\ got = NothingGot
    /\ elog = <<>>

\* defineRule(ruleId, ruleModule)
defineRule ==
    /\ EngineFrame
    /\ Len(elog) < MaxDefines
    /\ \E id \in EngineRuleIds, m \in EngineRuleModules :
        /\ slots' = [slots EXCEPT !.ruleMap = define(@, id, m)]
        /\ elog' = Append(elog, [id |-> id, rule |-> m])
    /\ epc' = "registered"
    /\ got' = NothingGot

\* defineRules(rulesToDefine): defineRule for each own property name
defineRules ==
    /\ EngineFrame
    /\ \E m \in RulesToDefine :
        /\ Len(elog) + Len(m) <= MaxDefines
        /\ slots' = [slots EXCEPT !.ruleMap = DefineAll(@, OwnKeys(m))]
        /\ elog' = elog \o OwnKeys(m)
    /\ epc' = "registered"
    /\ got' = NothingGot

\* defineParser(parserId, parserModule)
defineParser ==
    /\ EngineFrame
    /\ \E parserId \in {"espree", "custom"} :
        slots' = [slots EXCEPT !.parserMap = @ \cup {parserId}]
    /\ epc' = "registered"
    /\ got' = NothingGot
    /\ UNCHANGED elog

\* verifyAndFix(text, config, options), as far as the registries go: each
\* pass stores the config it builds in slots.lastConfigArray
callVerifyAndFix ==
    /\ EngineFrame
    /\ \E config \in EngineConfigs :
        slots' = IF StoresConfig(config)
                 THEN [slots EXCEPT !.lastConfigArray = WantedConfig]
                 ELSE slots
    /\ epc' = "verified"
    /\ got' = NothingGot
    /\ UNCHANGED elog

\* getRules()
getRules ==
    /\ EngineFrame
    /\ got' = getRulesResult(slots)
    /\ epc' = "getRules"
    /\ UNCHANGED <<slots, elog>>

\* slots.ruleMap.get(ruleId), the ruleMapper of a pass
lookupRule ==
    /\ EngineFrame
    /\ \E id \in EngineRuleIds :
        got' = [NothingGot EXCEPT !.call = "get", !.id = id, !.rule = get(slots.ruleMap, id)]
    /\ epc' = "get"
    /\ UNCHANGED <<slots, elog>>

NextEngine ==
    \/ defineRule
    \/ defineRules
    \/ defineParser
    \/ callVerifyAndFix
    \/ getRules
    \/ lookupRule

-----------------------------------------------------------------------------
(* runRules: the rule contexts of a pass and the objects behind them       *)

\* writes the rules of one pass make to the objects they reach
MaxActs == 3

\* the two rules of the pass
ContextRules == {1, 2}

\* The objects of a pass.  ruleContext(r) inherits from
\* sharedTraversalContext, which inherits from BASE_TRAVERSAL_CONTEXT;
\* options(r) is the array getRuleOptions returns for rule r;
\* sharedTraversalContext holds parserOptions, languageOptions and settings.
RuleContextOf(r) == IF r = 1 THEN "ruleContext1" ELSE "ruleContext2"

OptionsOf(r) == IF r = 1 THEN "options1" ELSE "options2"

ContextObjects ==
    {"BASE_TRAVERSAL_CONTEXT", "sharedTraversalContext", "parserOptions",
     "languageOptions", "settings"}
    \cup {RuleContextOf(r) : r \in ContextRules} \cup {OptionsOf(r) : r \in ContextRules}

\* the objects created with Object.freeze
FrozenObjects ==
    {"BASE_TRAVERSAL_CONTEXT", "sharedTraversalContext"} \cup {RuleContextOf(r) : r \in ContextRules}

\* what rule r reaches from the context it was given
ReachedBy(r) ==
    {RuleContextOf(r), "sharedTraversalContext", "BASE_TRAVERSAL_CONTEXT", OptionsOf(r),
     "parserOptions", "languageOptions", "settings"}

\* an object as built: not extended, its field present with its first value
AsBuilt(frozen) == [frozen |-> frozen, field |-> "built", extra |-> FALSE]

BuiltHeap == [o \in ContextObjects |-> AsBuilt(o \in FrozenObjects)]

\* what a rule can do to an object: assign to a field it has, add a field,
\* delete a field
WriteKinds == {"assign", "add", "delete"}

\* The object after the write.  A write to a frozen object changes nothing
\* (it is ignored in sloppy code and throws a TypeError in strict code).
Written(object, kind, r) ==
    IF object.frozen THEN object
    ELSE CASE kind = "assign" -> [object EXCEPT !.field = IF @ = "deleted" THEN @ ELSE "assigned"]
           [] kind = "add" -> [object EXCEPT !.extra = TRUE]
           [] OTHER -> [object EXCEPT !.field = "deleted"]

\* what rule r observes through its context: the objects it reaches
ViewOf(h, r) == [o \in ReachedBy(r) |-> h[o]]

NoAct == [rule |-> 0, object |-> "none", kind |-> "none", count |-> 0]

ContextFrame == UNCHANGED <<earlyVars, curVars, regVars, prepVars, globVars, cliVars, histVars>>

InitContext ==
    /\ xpc = "idle"
    /\ heap = BuiltHeap
    /\ acted = {}
    /\ lastAct = NoAct

\* runRules builds sharedTraversalContext and one ruleContext per rule
BuildContexts ==
    /\ ContextFrame
    /\ xpc \in {"idle", "pass"}
    /\ heap' = BuiltHeap
    /\ acted' = {}
    /\ lastAct' = NoAct
    /\ xpc' = "pass"

\* the factory or a listener of rule r writes to an object it reaches
RuleWrites ==
    /\ ContextFrame
    /\ xpc = "pass"
    /\ lastAct.count < MaxActs
    /\ \E r \in ContextRules, kind \in WriteKinds :
        \E o \in ReachedBy(r) :
            /\ heap' = [heap EXCEPT ![o] = Written(@, kind, r)]
            /\ acted' = acted \cup {r}
            /\ lastAct' = [rule |-> r, object |-> o, kind |-> kind, count |-> lastAct.count + 1]
    /\ UNCHANGED xpc

NextContext == BuildContexts \/ RuleWrites

-----------------------------------------------------------------------------
(* #verifyWithoutProcessors before parsing: normalizeVerifyOptions, and the *)
(* environments, parser options and globals of the call                    *)

s_module == <<"m", "o", "d", "u", "l", "e">>

s_input == <<"<", "i", "n", "p", "u", "t", ">">>

s_file == <<"a", ".", "j", "s">>

\* values of a flag in the options or the config
FlagValues == {Undefined, Bool(TRUE), Bool(FALSE)}

\* providedOptions.reportUnusedDisableDirectives: boolean | "off" | "warn" |
\* "error", or null, or not given
ProvidedPolicies ==
    {Undefined, Null, Bool(TRUE), Bool(FALSE), Str(s_off), Str(s_warn), Str(s_error)}

ProvidedOptions ==
    [reportUnusedDisableDirectives : ProvidedPolicies,
     allowInlineConfig : FlagValues,
     disableFixes : {Undefined, Bool(TRUE)},
     filename : {Undefined, Str(s_file)}]

\* the part of a config normalizeVerifyOptions reads, on the config itself
\* (eslintrc) or on config.linterOptions (flat)
LinterOptionValues ==
    [noInlineConfig : {Undefined, Bool(TRUE)},
     reportUnusedDisableDirectives : FlagValues]

OptionConfigs ==
    [hasLinterOptions : BOOLEAN, linterOptions : LinterOptionValues, own : LinterOptionValues]

\* const linterOptions = config.linterOptions || config
LinterOptionsOf(config) == IF config.hasLinterOptions THEN config.linterOptions ELSE config.own

\* mutant of FromBoolean: true is taken as "warn"
FromBooleanWarn(value) == IF Truthy(value) THEN Str(s_warn) ELSE Str(s_off)

\* reportUnusedDisableDirectives ? "error" : "off"
FromBoolean(value) == IF Truthy(value) THEN Str(s_error) ELSE Str(s_off)

\* linterOptions.reportUnusedDisableDirectives ? "warn" : "off"
FromConfig(linterOptions) ==
    IF Truthy(linterOptions.reportUnusedDisableDirectives) THEN Str(s_warn) ELSE Str(s_off)

\* normalizeVerifyOptions(providedOptions, config); the file names here
\* have no "<text>" part, so normalizeFilename returns them as they are
normalizeVerifyOptions(providedOptions, config) ==
    LET linterOptions == LinterOptionsOf(config)
        disableInlineConfig == linterOptions.noInlineConfig = Bool(TRUE)
        ignoreInlineConfig == providedOptions.allowInlineConfig = Bool(FALSE)
        given == providedOptions.reportUnusedDisableDirectives
        afterBoolean == IF given.t = "boolean" THEN FromBoolean(given) ELSE given
        policy == IF afterBoolean.t # "string" THEN FromConfig(linterOptions) ELSE afterBoolean
    IN [filename |-> OrElse(providedOptions.filename, Str(s_input)),
        allowInlineConfig |-> ~ignoreInlineConfig,
        warnInlineConfig |-> disableInlineConfig /\ ~ignoreInlineConfig,
        reportUnusedDisableDirectives |-> policy,
        disableFixes |-> Truthy(providedOptions.disableFixes)]

\* ---- environments

\* parserOptions, as far as they are looked at here
ParserOptionValues ==
    [sourceType : {Undefined, Str(s_module)},
     ecmaVersion : {Undefined, Num(6), Num(2015)},
     globalReturn : {Undefined, Bool(TRUE)}]

NoParserOptions == [sourceType |-> Undefined, ecmaVersion |-> Undefined, globalReturn |-> Undefined]

\* globals: each name is absent or has a setting
GlobalNames == {"g", "window"}

NoGlobals == [n \in GlobalNames |-> "absent"]

ConfigGlobals == {NoGlobals, [NoGlobals EXCEPT !["g"] = "writable"],
                  [NoGlobals EXCEPT !["window"] = "off"]}

\* environment ids in the order of the keys of resolvedEnvConfig
EnvOrder == <<"builtin", "browser", "node">>

ConfigEnvIds == {"browser", "node"}

\* an environment as getEnv returns it; NoEnv is null
NoEnv == [found |-> FALSE, globals |-> NoGlobals, parserOptions |-> NoParserOptions]

BrowserEnv ==
    [found |-> TRUE, globals |-> [NoGlobals EXCEPT !["window"] = "readonly"],
     parserOptions |-> [NoParserOptions EXCEPT !.ecmaVersion = Num(6)]]

\* mutant of getEnv: the browser environment is found
getEnvBrowser(slotsOfLinter, envId) == IF envId = "browser" THEN BrowserEnv ELSE NoEnv

\* getEnv(slots, envId)
getEnv(slotsOfLinter, envId) == NoEnv

\* the arguments of the environment step: the normalized options, config.env,
\* the environments of an eslint-env comment in the text, the parser,
\* config.parserOptions and config.globals
EnvironmentInputs ==
    [allowInlineConfig : BOOLEAN, warnInlineConfig : BOOLEAN,
     env : [ConfigEnvIds -> FlagValues],
     inText : SUBSET ConfigEnvIds,
     espree : BOOLEAN,
     parserOptions : ParserOptionValues,
     globals : ConfigGlobals]

\* resolvedEnvConfig[envName], of Object.assign({ builtin: true }, config.env, envInFile)
ResolvedEnv(input, envName) ==
    LET envInFile == IF input.allowInlineConfig /\ ~input.warnInlineConfig
                     THEN input.inText ELSE {}
    IN IF envName \in envInFile THEN Bool(TRUE)
       ELSE IF envName \in ConfigEnvIds /\ input.env[envName] # Undefined THEN input.env[envName]
       ELSE IF envName = "builtin" THEN Bool(TRUE)
       ELSE Undefined

\* the names that are enabled, before they are resolved
EnabledEnvNames(input) == SelectSeq(EnvOrder, LAMBDA n : Truthy(ResolvedEnv(input, n)))

\* enabledEnvs: .map(envName => getEnv(slots, envName)).filter(env => env)
EnabledEnvs(input) ==
    LET names == EnabledEnvNames(input)
    IN SelectSeq([i \in 1..Len(names) |-> getEnv("slots", names[i])], LAMBDA e : e.found)

\* merge(target, source): a value of the source that is not undefined wins
MergeOptions(target, source) ==
    [k \in DOMAIN target |-> IF source[k] # Undefined THEN source[k] ELSE target[k]]

RECURSIVE MergeAll(_, _)
MergeAll(acc, envs) ==
    IF envs = <<>> THEN acc
    ELSE MergeAll(MergeOptions(acc, envs[1].parserOptions), Tail(envs))

\* normalizeEcmaVersion(parser, ecmaVersion), for numbers and undefined
normalizeEcmaVersion(espree, ecmaVersion) ==
    IF ecmaVersion.t = "number" /\ ecmaVersion.v >= 2015
    THEN Num(ecmaVersion.v - 2009)
    ELSE ecmaVersion

\* resolveParserOptions(parser, providedOptions, enabledEnvironments)
resolveParserOptions(espree, providedOptions, enabledEnvironments) ==
    LET merged == MergeOptions(MergeAll(NoParserOptions, enabledEnvironments), providedOptions)
        isModule == merged.sourceType = Str(s_module)
        features == IF isModule THEN [merged EXCEPT !.globalReturn = Bool(FALSE)] ELSE merged
    IN [features EXCEPT !.ecmaVersion = normalizeEcmaVersion(espree, @)]

RECURSIVE AssignGlobals(_, _)
AssignGlobals(acc, envs) ==
    IF envs = <<>> THEN acc
    ELSE AssignGlobals([n \in GlobalNames |->
                            IF envs[1].globals[n] # "absent" THEN envs[1].globals[n] ELSE acc[n]],
                       Tail(envs))

\* resolveGlobals(providedGlobals, enabledEnvironments)
resolveGlobals(providedGlobals, enabledEnvironments) ==
    LET fromEnvs == AssignGlobals(NoGlobals, enabledEnvironments)
    IN [n \in GlobalNames |-> IF providedGlobals[n] # "absent" THEN providedGlobals[n] ELSE fromEnvs[n]]

NoOptionsInput ==
    [reportUnusedDisableDirectives |-> Undefined, allowInlineConfig |-> Undefined,
     disableFixes |-> Undefined, filename |-> Undefined]

NoOptionConfig ==
    [hasLinterOptions |-> FALSE,
     linterOptions |-> [noInlineConfig |-> Undefined, reportUnusedDisableDirectives |-> Undefined],
     own |-> [noInlineConfig |-> Undefined, reportUnusedDisableDirectives |-> Undefined]]

NoEnvironmentInput ==
    [allowInlineConfig |-> TRUE, warnInlineConfig |-> FALSE,
     env |-> [n \in ConfigEnvIds |-> Undefined], inText |-> {}, espree |-> TRUE,
     parserOptions |-> NoParserOptions, globals |-> NoGlobals]

\* ---- directive comments

\* the directive comments a text can have: a rule configuration, a global,
\* an exported name, a disable directive
DirectiveComments == {"eslint", "global", "exported", "eslint-disable"}

InlineRuleIds == {"r1", "r2"}

\* config.rules: for each rule id no entry, or its severity
RuleMaps == [InlineRuleIds -> {"absent", "off", "error"}]

NoRuleMap == [id \in InlineRuleIds |-> "absent"]

InlineInputs ==
    [comments : SUBSET DirectiveComments, allowInlineConfig : BOOLEAN, rules : RuleMaps]

\* { configuredRules: {}, enabledGlobals: {}, exportedVariables: {},
\*   problems: [], disableDirectives: [] }
EmptyDirectives ==
    [configuredRules |-> NoRuleMap, enabledGlobals |-> {}, exportedVariables |-> {},
     problems |-> <<>>, disableDirectives |-> <<>>]

\* mutant of CommentDirectivesOf: the comments of the text are read when
\* inline configuration is allowed
CommentDirectivesRead(comments, allowInlineConfig) ==
    IF ~allowInlineConfig THEN EmptyDirectives
    ELSE [configuredRules |-> IF "eslint" \in comments
                              THEN [r1 |-> "off", r2 |-> "error"] ELSE NoRuleMap,
          enabledGlobals |-> IF "global" \in comments THEN {"g"} ELSE {},
          exportedVariables |-> IF "exported" \in comments THEN {"x"} ELSE {},
          problems |-> <<>>,
          disableDirectives |-> IF "eslint-disable" \in comments
                                THEN <<[type |-> "disable", line |-> 1]>> ELSE <<>>]

\* const commentDirectives = { ... }: the same for every text and option
CommentDirectivesOf(comments, allowInlineConfig) == EmptyDirectives

\* Object.assign({}, config.rules, commentDirectives.configuredRules)
AssignRules(rules, fromComments) ==
    [id \in InlineRuleIds |-> IF fromComments[id] # "absent" THEN fromComments[id] ELSE rules[id]]

NoInlineInput == [comments |-> {}, allowInlineConfig |-> TRUE, rules |-> NoRuleMap]

NoPrepInput == [options |-> NoOptionsInput, config |-> NoOptionConfig, envs |-> NoEnvironmentInput,
                inline |-> NoInlineInput]

NothingPrepared ==
    [options |-> normalizeVerifyOptions(NoOptionsInput, NoOptionConfig),
     enabledEnvs |-> <<>>, parserOptions |-> NoParserOptions, globals |-> NoGlobals,
     configuredRules |-> NoRuleMap, enabledGlobals |-> {}, exportedVariables |-> {},
     disableDirectives |-> <<>>]

PrepareFrame == UNCHANGED <<earlyVars, curVars, regVars, ctxVars, globVars, cliVars, histVars>>

InitPrepare ==
    /\ ppc = "idle"
    /\ pinput = NoPrepInput
    /\ prepared = NothingPrepared

\* const options = normalizeVerifyOptions(providedOptions, config)
NormalizeOptions ==
    /\ PrepareFrame
    /\ ppc = "idle"
    /\ \E providedOptions \in ProvidedOptions, config \in OptionConfigs :
        /\ pinput' = [NoPrepInput EXCEPT !.options = providedOptions, !.config = config]
        /\ prepared' = [NothingPrepared EXCEPT
                            !.options = normalizeVerifyOptions(providedOptions, config)]
    /\ ppc' = "options"

\* enabledEnvs, parserOptions and configuredGlobals of the call
ResolveEnvironments ==
    /\ PrepareFrame
    /\ ppc = "idle"
    /\ \E input \in EnvironmentInputs :
        /\ pinput' = [NoPrepInput EXCEPT !.envs = input]
        /\ prepared' = [NothingPrepared EXCEPT
                            !.enabledEnvs = EnabledEnvs(input),
                            !.parserOptions = resolveParserOptions(input.espree, input.parserOptions,
                                                                   EnabledEnvs(input)),
                            !.globals = resolveGlobals(input.globals, EnabledEnvs(input))]
    /\ ppc' = "environments"

\* commentDirectives, what addDeclaredGlobals gets of it, configuredRules,
\* and the directives applyDisableDirectives gets
CollectDirectives ==
    /\ PrepareFrame
    /\ ppc = "idle"
    /\ \E input \in InlineInputs :
        LET commentDirectives == CommentDirectivesOf(input.comments, input.allowInlineConfig)
        IN /\ pinput' = [NoPrepInput EXCEPT !.inline = input]
           /\ prepared' = [NothingPrepared EXCEPT
                               !.configuredRules =
                                   AssignRules(input.rules, commentDirectives.configuredRules),
                               !.enabledGlobals = commentDirectives.enabledGlobals,
                               !.exportedVariables = commentDirectives.exportedVariables,
                               !.disableDirectives = commentDirectives.disableDirectives]
    /\ ppc' = "directives"

NextPrepare == NormalizeOptions \/ ResolveEnvironments \/ CollectDirectives

-----------------------------------------------------------------------------
(* addDeclaredGlobals: the configured globals are put into the global scope *)
(* and the references they resolve are taken off its through list           *)

\* longest through list of a global scope
MaxRefs == 2

\* the names references can have: the two that can be configured, and one
\* that never is
ReferenceNames == GlobalNames \cup {"u"}

\* what a config can say about a global ("writeable" is handed on as it is)
GlobalSettings == {"absent", "off", "readonly", "writable", "writeable"}

ConfiguredGlobals == [GlobalNames -> GlobalSettings]

\* globalScope.set.get(id) of a name the scope does not have
NoVariable == [present |-> FALSE, writeable |-> Undefined, setting |-> "absent",
               explicit |-> Undefined, references |-> <<>>]

\* a variable scope analysis found declared in the text, with the reference
\* of its declaration
DeclaredVariable == [NoVariable EXCEPT !.present = TRUE, !.references = <<0>>]

\* new eslintScope.Variable(id, globalScope)
NewVariable == [NoVariable EXCEPT !.present = TRUE]

\* the through list of a scope: references with the place they have in the
\* list as their identity
ThroughLists ==
    UNION {{[i \in 1..n |-> [id |-> i, name |-> names[i], resolved |-> "null"]] :
                names \in [1..n -> ReferenceNames]} : n \in 0..MaxRefs}

GlobalScopes ==
    [set : [GlobalNames -> {NoVariable, DeclaredVariable}], through : ThroughLists]

\* commentDirectives.enabledGlobals of the call: {}
EnabledGlobals == [n \in GlobalNames |-> "absent"]

\* Object.keys of the configured globals, then of the enabled ones
GlobalIdsOf(configGlobals, enabledGlobals) ==
    SelectSeq(<<"g", "window">>,
              LAMBDA n : configGlobals[n] # "absent" \/ enabledGlobals[n] # "absent")

\* mutant of IsWritable: every setting but "readonly" makes it writable
IsWritableUnlessReadonly(value) == value # "readonly"

\* variable.writeable = (value === "writable")
IsWritable(value) == value = "writable"

\* the body of the loop over the ids
DefineGlobal(scope, id, configGlobals, enabledGlobals) ==
    LET configValue == configGlobals[id]
        commentValue == enabledGlobals[id]
        value == IF commentValue # "absent" THEN commentValue ELSE configValue
        variable == IF scope.set[id].present THEN scope.set[id] ELSE NewVariable
    IN IF value = "off" THEN scope
       ELSE [scope EXCEPT !.set[id] =
                [variable EXCEPT !.setting = configValue,
                                 !.explicit = Bool(commentValue # "absent"),
                                 !.writeable = Bool(IsWritable(value))]]

RECURSIVE DefineGlobals(_, _, _, _)
DefineGlobals(scope, ids, configGlobals, enabledGlobals) ==
    IF ids = <<>> THEN scope
    ELSE DefineGlobals(DefineGlobal(scope, Head(ids), configGlobals, enabledGlobals),
                       Tail(ids), configGlobals, enabledGlobals)

\* globalScope.set.get(name) is a variable
InScope(scope, name) == name \in GlobalNames /\ scope.set[name].present

\* the test of the filter callback: if (variable)
Relinked(scope, reference) == InScope(scope, reference.name)

\* globalScope.through.filter(...): from the first reference to the last,
\* link it to its variable and drop it, or keep it
RECURSIVE FilterThrough(_, _)
FilterThrough(scope, todo) ==
    IF todo = <<>> THEN scope
    ELSE LET reference == Head(todo)
         IN IF Relinked(scope, reference)
            THEN FilterThrough(
                    [scope EXCEPT !.set[reference.name].references = Append(@, reference.id),
                                  !.resolved = @ \cup {<<reference.id, reference.name>>}],
                    Tail(todo))
            ELSE FilterThrough([scope EXCEPT !.through = Append(@, reference)], Tail(todo))

\* addDeclaredGlobals(globalScope, configGlobals, { exportedVariables, enabledGlobals });
\* resolved collects reference.resolved of the references taken off
addDeclaredGlobals(scope, configGlobals, enabledGlobals) ==
    LET defined == DefineGlobals(scope, GlobalIdsOf(configGlobals, enabledGlobals),
                                 configGlobals, enabledGlobals)
    IN FilterThrough([set |-> defined.set, through |-> <<>>, resolved |-> {}],
                     defined.through)

NoGlobalScope == [set |-> [n \in GlobalNames |-> NoVariable], through |-> <<>>, resolved |-> {}]

NoGlobalsInput == [scope |-> [set |-> [n \in GlobalNames |-> NoVariable], through |-> <<>>],
                   globals |-> [n \in GlobalNames |-> "absent"]]

GlobalsFrame == UNCHANGED <<earlyVars, curVars, regVars, ctxVars, prepVars, cliVars, histVars>>

InitGlobals ==
    /\ gpc = "idle"
    /\ ginput = NoGlobalsInput
    /\ globalScope = NoGlobalScope

\* scope analysis has made the global scope of the text
AnalyzeScope ==
    /\ GlobalsFrame
    /\ gpc = "idle"
    /\ \E scope \in GlobalScopes, configGlobals \in ConfiguredGlobals :
        /\ ginput' = [scope |-> scope, globals |-> configGlobals]
        /\ globalScope' = [set |-> scope.set, through |-> scope.through, resolved |-> {}]
    /\ gpc' = "analyzed"

\* addDeclaredGlobals(sourceCode.scopeManager.scopes[0], configuredGlobals, ...)
AddDeclaredGlobals ==
    /\ GlobalsFrame
    /\ gpc = "analyzed"
    /\ globalScope' = addDeclaredGlobals([set |-> globalScope.set, through |-> globalScope.through],
                                         ginput.globals, EnabledGlobals)
    /\ gpc' = "augmented"
    /\ UNCHANGED ginput

NextGlobals == AnalyzeScope \/ AddDeclaredGlobals

-----------------------------------------------------------------------------
(* CLIEngine.executeOnFiles: calls that run at the same time on one engine. *)
(* Synchronous code runs until it awaits; one step per await and per stage  *)
(* of a pass of verifyAndFix                                                *)

\* most files of one executeOnFiles call, most passes verifyAndFix makes
\* over one file
MaxFiles == 2

MaxLintPasses == 2

TaskIds == {1, 2}

FileTexts == {1, 2}

\* the patterns argument: the files of a call, by the text each file has
FileLists == UNION {[1..n -> FileTexts] : n \in 0..MaxFiles}

\* slots.lastSourceCode: null
NothingParsed == <<0, 0>>

\* the SourceCode parse() makes of a text in a pass of verifyAndFix
ParsedUnit(fileText, passNo) == <<fileText, passNo>>

IdleTask == [pc |-> "idle", files |-> <<>>, at |-> 0, pass |-> 0, ran |-> <<>>,
             results |-> <<>>]

\* mutant of Suspends: a pass gives way between parsing and the rules
SuspendsInPass(place) == place \in {"awaiting", "rules"}

\* the places where the code of a call gives way to other code: the one
\* await of executeOnFiles, `text: await file.text()`
Suspends(place) == place = "awaiting"

\* the call can take its next step: its code is being run, or nothing is run
\* and it waits at a place where it gave way
CanRun(t) == running = t \/ (running = 0 /\ Suspends(tasks[t].pc))

\* who is run after a step that leaves the call at a place
RunningAfter(t, place) == IF Suspends(place) \/ place = "done" THEN 0 ELSE t

CliFrame == UNCHANGED <<earlyVars, curVars, regVars, ctxVars, prepVars, globVars, histVars>>

InitCli ==
    /\ tasks = [t \in TaskIds |-> IdleTask]
    /\ running = 0
    /\ lastParsed = NothingParsed
    /\ lintOrder = <<>>

\* executeOnFiles(patterns) is called: the code up to the first await, or
\* to the return when there is no file
ExecuteOnFiles ==
    /\ CliFrame
    /\ running = 0
    /\ \E t \in TaskIds, patterns \in FileLists :
        /\ tasks[t].pc = "idle"
        /\ LET place == IF patterns = <<>> THEN "done" ELSE "awaiting"
           IN /\ tasks' = [tasks EXCEPT ![t] = [IdleTask EXCEPT !.pc = place, !.files = patterns,
                                                                 !.at = 1]]
              /\ running' = RunningAfter(t, place)
    /\ UNCHANGED <<lastParsed, lintOrder>>

\* file.text() has resolved: verifyText calls linter.verifyAndFix
ReadResolved ==
    /\ CliFrame
    /\ \E t \in TaskIds :
        /\ tasks[t].pc = "awaiting"
        /\ CanRun(t)
        /\ tasks' = [tasks EXCEPT ![t].pc = "parse", ![t].pass = 1, ![t].ran = <<>>]
        /\ running' = RunningAfter(t, "parse")
        /\ lintOrder' = Append(lintOrder, t)
    /\ UNCHANGED lastParsed

\* a pass of verifyAndFix: slots.lastSourceCode = null, then the SourceCode
\* parse() makes of the text
ParsePass ==
    /\ CliFrame
    /\ \E t \in TaskIds :
        /\ tasks[t].pc = "parse"
        /\ CanRun(t)
        /\ lastParsed' = ParsedUnit(tasks[t].files[tasks[t].at], tasks[t].pass)
        /\ tasks' = [tasks EXCEPT ![t].pc = "rules"]
        /\ running' = RunningAfter(t, "rules")
    /\ UNCHANGED lintOrder

\* the rest of the pass: const sourceCode = slots.lastSourceCode, the rules
\* run on it; then another pass when a fix was applied, or verifyText
\* returns the result and the loop goes to the next file or ends.  The
\* result says which texts the rules of its passes ran on, and whether each
\* pass ran on the SourceCode it had parsed itself
RunPass ==
    /\ CliFrame
    /\ \E t \in TaskIds :
        /\ tasks[t].pc = "rules"
        /\ CanRun(t)
        /\ LET task == tasks[t]
               ran == Append(task.ran, lastParsed)
               result == [file |-> task.files[task.at],
                          linted |-> {ran[k][1] : k \in 1..Len(ran)},
                          inOrder |-> \A k \in 1..Len(ran) : ran[k][2] = k]
           IN \E another \in BOOLEAN :
                IF another
                THEN /\ task.pass < MaxLintPasses
                     /\ tasks' = [tasks EXCEPT ![t] =
                                     [task EXCEPT !.pc = "parse", !.pass = @ + 1, !.ran = ran]]
                     /\ running' = RunningAfter(t, "parse")
                ELSE LET place == IF task.at < Len(task.files) THEN "awaiting" ELSE "done"
                     IN /\ tasks' = [tasks EXCEPT ![t] =
                                        [task EXCEPT !.pc = place, !.at = @ + 1, !.ran = <<>>,
                                                     !.results = Append(@, result)]]
                        /\ running' = RunningAfter(t, place)
    /\ UNCHANGED <<lastParsed, lintOrder>>

NextCli == ExecuteOnFiles \/ ReadResolved \/ ParsePass \/ RunPass

-----------------------------------------------------------------------------
(* verifyAndFix as a function of the slots of the Linter, the text and      *)
(* rules, parser and patcher that always do the same with the same text     *)

\* What is registered on the Linter and the patcher, fixed over the calls:
\* whether a text parses, whether the rules report a fixable Problem on its
\* SourceCode, and the text the patcher makes of it
Oracles == [parses : [Texts -> BOOLEAN], fixable : [Texts -> BOOLEAN], patched : [Texts -> Texts]]

NoOracle == [parses |-> [t \in Texts |-> TRUE], fixable |-> [t \in Texts |-> FALSE],
             patched |-> [t \in Texts |-> t]]

\* new Linter(): lastConfigArray: null, lastSourceCode: null
FreshSlots == [lastSourceCode |-> NullSourceCode, lastConfigArray |-> "null"]

\* mutant of SlotForText: the SourceCode of the call before is kept
SlotForTextKept(slot) == slot

\* if (typeof textOrSourceCode === "string") slots.lastSourceCode = null
SlotForText(slot) == NullSourceCode

\* #verifyWithConfigArray(text, config, options) with a text: the config is
\* stored, the slot is reset, the text is parsed if the slot is empty, and
\* the rules run on the SourceCode in the slot
VerifyWithConfigArray(sl, txt, orc) ==
    LET stored == [sl EXCEPT !.lastConfigArray = "wanted"]
        start == SlotForText(stored.lastSourceCode)
    IN IF start = NullSourceCode /\ ~orc.parses[txt]
       THEN [msgs |-> "fatal", slots |-> [stored EXCEPT !.lastSourceCode = NullSourceCode]]
       ELSE LET sourceCode == IF start = NullSourceCode THEN txt ELSE start
            IN [msgs |-> IF orc.fixable[sourceCode] THEN "fixable" ELSE "clean",
                slots |-> [stored EXCEPT !.lastSourceCode = sourceCode]]

\* SourceCodeFixer.applyFixes(currentText, messages, shouldFix) of a patcher
\* that always does the same
ApplyFixes(txt, msgs, fix, orc) ==
    IF fix /\ msgs = "fixable"
    THEN [fixed |-> TRUE, output |-> orc.patched[txt], msgs |-> "clean"]
    ELSE [fixed |-> FALSE, output |-> txt, msgs |-> msgs]

\* the do-while loop of verifyAndFix from pass n on, and what follows it
RECURSIVE VerifyAndFixFrom(_, _, _, _, _, _)
VerifyAndFixFrom(sl, cur, n, wasFixed, fix, orc) ==
    LET verified == VerifyWithConfigArray(sl, cur, orc)
        fr == ApplyFixes(cur, verified.msgs, fix, orc)
    IN IF verified.msgs = "fatal"
       THEN [result |-> [fixed |-> wasFixed, output |-> cur, msgs |-> fr.msgs],
             slots |-> verified.slots]
       ELSE IF fr.fixed /\ n < MAX_AUTOFIX_PASSES
       THEN VerifyAndFixFrom(verified.slots, fr.output, n + 1, TRUE, fix, orc)
       ELSE IF fr.fixed
       THEN LET last == VerifyWithConfigArray(verified.slots, fr.output, orc)
            IN [result |-> [fixed |-> TRUE, output |-> fr.output, msgs |-> last.msgs],
                slots |-> last.slots]
       ELSE [result |-> [fixed |-> wasFixed, output |-> fr.output, msgs |-> fr.msgs],
             slots |-> verified.slots]

\* verifyAndFix(text, config, options)
verifyAndFix(sl, txt, fix, orc) == VerifyAndFixFrom(sl, txt, 1, FALSE, fix, orc)

NoOutcome == [called |-> FALSE, txt |-> 0, before |-> FreshSlots,
              used |-> [fixed |-> FALSE, output |-> 0, msgs |-> "clean"],
              fresh |-> [fixed |-> FALSE, output |-> 0, msgs |-> "clean"]]

ReuseFrame == UNCHANGED <<earlyVars, curVars, regVars, ctxVars, prepVars, globVars, cliVars>>

InitReuse ==
    /\ kpc = "constructed"
    /\ oracle = NoOracle
    /\ engine = FreshSlots
    /\ outcome = NoOutcome

\* rules and parser are registered, before the first call
RegisterAll ==
    /\ ReuseFrame
    /\ kpc = "constructed"
    /\ oracle' \in Oracles
    /\ kpc' = "registered"
    /\ UNCHANGED <<engine, outcome>>

\* linter.verifyAndFix(text, config, options); a new Linter with the same
\* rules and parser is given the same call
CallVerifyAndFix ==
    /\ ReuseFrame
    /\ kpc \in {"registered", "called"}
    /\ \E txt \in Texts, fix \in BOOLEAN :
        LET onUsed == verifyAndFix(engine, txt, fix, oracle)
            onFresh == verifyAndFix(FreshSlots, txt, fix, oracle)
        IN /\ engine' = onUsed.slots
           /\ outcome' = [called |-> TRUE, txt |-> txt, before |-> engine,
                          used |-> onUsed.result, fresh |-> onFresh.result]
    /\ kpc' = "called"
    /\ UNCHANGED oracle

NextReuse == RegisterAll \/ CallVerifyAndFix

-----------------------------------------------------------------------------
(* Parked values of the other machines *)

ParkedRules ==
    /\ rpc = "parked"
    /\ configuredRules = <<>>
    /\ ruleMap = <<>>
    /\ nodeQueue = <<>>
    /\ ruleIdx = 0
    /\ queueIdx = 0
    /\ currentNode = 0
    /\ emitter = <<>>
    /\ lintingProblems = <<>>
    /\ rlog = <<>>

ParkedSeverity ==
    /\ ruleConfig = Undefined
    /\ sevResult = Pending

ParkedFix == InitFix

ParkedReport == InitReport

ParkedVerify == InitVerify

ParkedTraverse == InitTraverse

ParkedEarly ==
    /\ ParkedFix
    /\ ParkedRules
    /\ ParkedSeverity
    /\ ParkedReport
    /\ ParkedVerify
    /\ ParkedTraverse

ParkedCursor == InitCursor

ParkedEngine == InitEngine

ParkedContext == InitContext

ParkedPrepare == InitPrepare

ParkedGlobals == InitGlobals

ParkedCli == InitCli

ParkedReuse == InitReuse

ParkedMore ==
    /\ ParkedCursor
    /\ ParkedEngine
    /\ ParkedContext
    /\ ParkedPrepare
    /\ ParkedGlobals
    /\ ParkedCli
    /\ ParkedReuse

-----------------------------------------------------------------------------
(* Specifications *)

Init ==
    /\ InitFix
    /\ ParkedRules
    /\ ParkedSeverity
    /\ ParkedReport
    /\ ParkedVerify
    /\ ParkedTraverse
    /\ ParkedMore

Next == NextFix

Spec == Init /\ [][Next]_vars

\* verifyAndFix is synchronous: once called, each of its steps is taken.
\* A new call is the caller's choice and gets no fairness.
FairSpec == Spec /\ WF_vars(StepFix)

InitSeverityOnly ==
    /\ InitSeverity
    /\ ParkedFix
    /\ ParkedRules
    /\ ParkedReport
    /\ ParkedVerify
    /\ ParkedTraverse
    /\ ParkedMore

SpecSeverity == InitSeverityOnly /\ [][NextSeverity]_vars

InitRulesOnly ==
    /\ InitRules
    /\ ParkedFix
    /\ ParkedSeverity
    /\ ParkedReport
    /\ ParkedVerify
    /\ ParkedTraverse
    /\ ParkedMore

SpecRules == InitRulesOnly /\ [][NextRules]_vars

InitReportOnly ==
    /\ InitReport
    /\ ParkedFix
    /\ ParkedRules
    /\ ParkedSeverity
    /\ ParkedVerify
    /\ ParkedTraverse
    /\ ParkedMore

SpecReport == InitReportOnly /\ [][NextReport]_vars

InitVerifyOnly ==
    /\ InitVerify
    /\ ParkedFix
    /\ ParkedRules
    /\ ParkedSeverity
    /\ ParkedReport
    /\ ParkedTraverse
    /\ ParkedMore

SpecVerify == InitVerifyOnly /\ [][NextVerify]_vars

InitTraverseOnly ==
    /\ InitTraverse
    /\ ParkedFix
    /\ ParkedRules
    /\ ParkedSeverity
    /\ ParkedReport
    /\ ParkedVerify
    /\ ParkedMore

SpecTraverse == InitTraverseOnly /\ [][NextTraverse]_vars

InitCursorOnly ==
    /\ InitCursor
    /\ ParkedEarly
    /\ ParkedEngine
    /\ ParkedContext
    /\ ParkedPrepare
    /\ ParkedGlobals
    /\ ParkedCli
    /\ ParkedReuse

SpecCursor == InitCursorOnly /\ [][NextCursor]_vars

InitEngineOnly ==
    /\ InitEngine
    /\ ParkedEarly
    /\ ParkedCursor
    /\ ParkedContext
    /\ ParkedPrepare
    /\ ParkedGlobals
    /\ ParkedCli
    /\ ParkedReuse

SpecEngine == InitEngineOnly /\ [][NextEngine]_vars

InitContextOnly ==
    /\ InitContext
    /\ ParkedEarly
    /\ ParkedCursor
    /\ ParkedEngine
    /\ ParkedPrepare
    /\ ParkedGlobals
    /\ ParkedCli
    /\ ParkedReuse

SpecContext == InitContextOnly /\ [][NextContext]_vars

InitPrepareOnly ==
    /\ InitPrepare
    /\ ParkedEarly
    /\ ParkedCursor
    /\ ParkedEngine
    /\ ParkedContext
    /\ ParkedGlobals
    /\ ParkedCli
    /\ ParkedReuse

SpecPrepare == InitPrepareOnly /\ [][NextPrepare]_vars

InitGlobalsOnly ==
    /\ InitGlobals
    /\ ParkedEarly
    /\ ParkedCursor
    /\ ParkedEngine
    /\ ParkedContext
    /\ ParkedPrepare
    /\ ParkedCli
    /\ ParkedReuse

SpecGlobals == InitGlobalsOnly /\ [][NextGlobals]_vars

InitCliOnly ==
    /\ InitCli
    /\ ParkedEarly
    /\ ParkedCursor
    /\ ParkedEngine
    /\ ParkedContext
    /\ ParkedPrepare
    /\ ParkedGlobals
    /\ ParkedReuse

SpecCli == InitCliOnly /\ [][NextCli]_vars

InitReuseOnly ==
    /\ InitReuse
    /\ ParkedEarly
    /\ ParkedCursor
    /\ ParkedEngine
    /\ ParkedContext
    /\ ParkedPrepare
    /\ ParkedGlobals
    /\ ParkedCli

SpecReuse == InitReuseOnly /\ [][NextReuse]_vars

-----------------------------------------------------------------------------
(* Properties of verifyAndFix *)

Returned == pc = "done"

\* C1: a call runs at most 10 verify-then-patch passes; when every patch
\* round reported fixed it ran exactly 10 and returns the output of the
\* 10th patch round.
C1_PassCap ==
    /\ passNumber <= MAX_AUTOFIX_PASSES
    /\ hist.patchCalls <= MAX_AUTOFIX_PASSES
    /\ hist.patchCalls <= passNumber
    /\ (Returned /\ hist.allFixed) =>
          /\ passNumber = MAX_AUTOFIX_PASSES
          /\ hist.patchCalls = MAX_AUTOFIX_PASSES
          /\ fixedResult.output = hist.lastPatchOut

C1_Witness ==
    /\ Returned
    /\ hist.allFixed
    /\ hist.patchCalls = MAX_AUTOFIX_PASSES
    /\ fixedResult.output # text

\* C2: every call whose Orchestrator and patcher calls return comes to its
\* return (after a fixed point, a fatal pass or the cap); a call the
\* Orchestrator throws out of ends as thrown.
C2_Terminates == (pc \in {"loop", "final"}) ~> (pc \in {"done", "thrown"})

C2_Witness ==
    /\ Returned
    /\ passNumber = 3
    /\ ~hist.finalVerified
    /\ hist.fatalPass = 0

\* C3: a pass that yields exactly one Problem, a fatal one, is the last
\* pass; nothing is verified or patched after it, the output of its patch
\* round is dropped and the call returns the text that pass was given.  When
\* it is pass 1 the call returns that one Problem, the caller's text and
\* fixed = FALSE.
C3_FatalStops ==
    hist.fatalPass # 0 =>
        /\ pc \in {"final", "done"}
        /\ passNumber = hist.fatalPass
        /\ hist.patchCalls = hist.fatalPass
        /\ hist.verifyCalls = hist.fatalPass
        /\ currentText = hist.fatalText
        /\ Returned => fixedResult.output = hist.fatalText
        /\ (Returned /\ hist.fatalPass = 1) =>
              /\ fixedResult.messages = <<ParseError>>
              /\ fixedResult.output = text
              /\ fixedResult.fixed = FALSE

C3_Witness ==
    /\ Returned
    /\ hist.fatalPass = 1
    /\ hist.lastPatchOut # text

\* C4: the returned fixed is TRUE exactly when some non-fatal pass's patch
\* round reported fixed, and the returned output is the output of the last
\* non-fatal patch round, or the caller's text when there was none.
C4_CumulativeResult ==
    Returned =>
        /\ fixedResult.fixed <=> hist.anyFixed
        /\ fixedResult.output = IF hist.goodRounds = 0 THEN text ELSE hist.lastGoodOut

C4_Witness ==
    /\ Returned
    /\ fixedResult.fixed
    /\ ~hist.finalVerified
    /\ hist.fatalPass = 0
    /\ hist.patchCalls = 3

\* C5: the returned messages were computed by a verification of exactly the
\* returned output text.
C5_MessagesOfOutput == Returned => hist.resultMsgsOf = fixedResult.output

C5_Witness ==
    /\ Returned
    /\ hist.finalVerified
    /\ fixedResult.messages # <<>>
    /\ fixedResult.output # text

\* C6: a call in which a fix was applied verifies at least twice before it
\* returns; when only the first patch round fixed something it makes exactly
\* 2 passes and returns fixed = TRUE, the rewritten text and the messages of
\* pass 2.
C6_TwoPasses ==
    /\ (Returned /\ hist.anyFixed) => hist.verifyCalls >= 2
    /\ (Returned /\ hist.firstFixed /\ ~hist.laterFixed) =>
          /\ passNumber = 2
          /\ hist.patchCalls = 2
          /\ hist.verifyCalls = 2
          /\ fixedResult.fixed
          /\ fixedResult.output = hist.firstOut
          /\ fixedResult.messages = messages

C6_Witness ==
    /\ Returned
    /\ hist.firstFixed
    /\ ~hist.laterFixed
    /\ fixedResult.output # text
    /\ fixedResult.messages # <<>>

\* C7: pass 1 verifies and patches the caller's text, pass N+1 the output of
\* pass N's patch round, and the last verification after the loop the output
\* of the last patch round.
C7_TextChain ==
    /\ (passNumber >= 1 /\ ~hist.finalVerified) =>
          /\ hist.verifyArg = IF passNumber = 1 THEN text ELSE hist.prevPatchOut
          /\ hist.patchArg = hist.verifyArg
    /\ (Returned /\ hist.finalVerified) => hist.verifyArg = hist.lastPatchOut

C7_Witness ==
    /\ pc = "loop"
    /\ passNumber = 3
    /\ hist.verifyArg # text
    /\ hist.lastPatchOut # hist.verifyArg

-----------------------------------------------------------------------------
(* Properties of getRuleSeverity *)

IsSeverityString(chars, word) == toLowerCase(chars) = word

\* the severity the documentation of getRuleSeverity gives a value: the
\* number itself for 0, 1 and 2, the index of "off", "warn", "error" for a
\* string spelled so in any letter case, the same for the first element of
\* an array, and 0 for everything else
DocumentedSeverity(cfg) ==
    LET first == IF cfg.t = "array"
                 THEN (IF Len(cfg.v) >= 1 THEN cfg.v[1] ELSE Undefined)
                 ELSE cfg
    IN CASE first.t = "number" /\ first.v \in {0, 1, 2} -> first.v
         [] first.t = "string" /\ IsSeverityString(first.v, s_off) -> 0
         [] first.t = "string" /\ IsSeverityString(first.v, s_warn) -> 1
         [] first.t = "string" /\ IsSeverityString(first.v, s_error) -> 2
         [] OTHER -> 0

\* C9: getRuleSeverity returns 0, 1 or 2 for every value, and 0 for every
\* value that is not one of the documented spellings of a severity.
C9_SeverityTotal ==
    sevResult # Pending =>
        /\ sevResult \in {Num(0), Num(1), Num(2)}
        /\ sevResult = Num(DocumentedSeverity(ruleConfig))

-----------------------------------------------------------------------------
(* Properties of runRules *)

ConfiguredIds == 1..Len(configuredRules)

SeverityOf(i) == getRuleSeverity(configuredRules[i].config)

IdOf(i) == configuredRules[i].ruleId

ProblemsOf(id) == {k \in 1..Len(lintingProblems) : lintingProblems[k].ruleId = id}

\* the queue entries a rule module's listeners are registered for
EntriesFor(rule) ==
    {q \in 1..Len(nodeQueue) :
        \E k \in 1..Len(rule.listens) : rule.listens[k] = EventOf(rlog.tree, nodeQueue[q])}

\* C8: a rule id whose configuration resolves to severity 0 has, at every
\* point of the pass, no factory call, no listener on the emitter, no
\* listener call and no Problem, whether or not the id has an implementation.
C8_DisabledRulesSkipped ==
    \A i \in ConfiguredIds :
        SeverityOf(i) = Num(0) =>
            /\ ~ \E k \in 1..Len(rlog.created) : rlog.created[k] = IdOf(i)
            /\ ~ \E k \in 1..Len(emitter) : emitter[k].ruleId = IdOf(i)
            /\ ~ \E e \in rlog.invoked : e[1] = IdOf(i)
            /\ ProblemsOf(IdOf(i)) = {}

C8_Witness ==
    /\ rpc = "done"
    /\ rlog.invoked # {}
    /\ \E i \in ConfiguredIds :
          /\ SeverityOf(i) = Num(0)
          /\ ruleMap[IdOf(i)].defined
          /\ EntriesFor(ruleMap[IdOf(i)]) # {}

\* the Problem the claim describes for a rule id without an implementation
MissingDefinitionProblem(id) ==
    [ruleId |-> id,
     message |-> [template |-> "Definition for rule '${ruleId}' was not found.", ruleId |-> id],
     line |-> 1, column |-> 1, endLine |-> 1, endColumn |-> 2,
     severity |-> Num(2), nodeType |-> "null"]

EnabledAt(i) == SeverityOf(i) \in {Num(1), Num(2)}

\* C10: once the loop over the configured rules has passed an enabled id
\* that has no implementation, lintingProblems holds exactly one Problem of
\* that id, the missing-definition Problem; the missing definition never
\* ends the pass; every enabled id that has an implementation still gets its
\* factory called, and in a pass that completes, its listeners called for
\* every queue entry they are registered for.
C10_MissingRuleProblem ==
    /\ \A i \in ConfiguredIds :
          (EnabledAt(i) /\ ~ruleMap[IdOf(i)].defined /\ i < ruleIdx) =>
              /\ Cardinality(ProblemsOf(IdOf(i))) = 1
              /\ \E k \in ProblemsOf(IdOf(i)) :
                    lintingProblems[k] = MissingDefinitionProblem(IdOf(i))
    /\ rlog.thrower # 0 => ruleMap[rlog.thrower].defined
    /\ \A j \in ConfiguredIds :
          (EnabledAt(j) /\ ruleMap[IdOf(j)].defined /\ j < ruleIdx) =>
              \E k \in 1..Len(rlog.created) : rlog.created[k] = IdOf(j)
    /\ rpc = "done" =>
          \A j \in ConfiguredIds :
              (EnabledAt(j) /\ ruleMap[IdOf(j)].defined) =>
                  \A q \in EntriesFor(ruleMap[IdOf(j)]) : <<IdOf(j), q>> \in rlog.invoked

C10_Witness ==
    /\ rpc = "done"
    /\ \E i, j \in ConfiguredIds :
          /\ i < j
          /\ EnabledAt(i) /\ ~ruleMap[IdOf(i)].defined
          /\ lintingProblems[1] = MissingDefinitionProblem(IdOf(i))
          /\ EnabledAt(j) /\ ruleMap[IdOf(j)].defined
          /\ \E e \in rlog.invoked : e[1] = IdOf(j)
          /\ ProblemsOf(IdOf(j)) # {}

-----------------------------------------------------------------------------
(* Properties of context.report *)

\* the Problem the listener's report stands for
ListenerProblem == TranslatedProblem(ListenerRuleId, descriptor, disableFixes)

ReportsFix == descriptor.act = "report" /\ ListenerProblem.fix

ReportsSuggestions == descriptor.act = "report" /\ ListenerProblem.suggestions

\* the listener's Problem is in the pass's list
Recorded == \E k \in 1..Len(reported) : reported[k].ruleId = ListenerRuleId

\* the call of the listener has ended the pass with an error
PassFailed == lpc \in {"handler", "queue", "verify", "thrown"}

\* the listener has returned to the pass
PassGoesOn == lpc \in {"pushed", "returned"}

ListenerRan == lpc # "idle" /\ lpc # "listener"

s_code == <<"c", "o", "d", "e">>

s_whitespace == <<"w", "h", "i", "t", "e", "s", "p", "a", "c", "e">>

FixableUnset == ruleMeta.fixable = Undefined

HasSuggestionsTrue == ruleMeta.present /\ ruleMeta.hasSuggestions = Bool(TRUE)

\* C11: a report with a fix by a rule whose meta.fixable is unset ends the
\* pass with the error about meta.fixable and records nothing; with
\* meta.fixable "code" (and nothing else wrong with the report) the pass
\* goes on and the recorded Problem carries the fix.
C11_FixNeedsFixable ==
    ListenerRan =>
        /\ (ReportsFix /\ FixableUnset) =>
              /\ PassFailed
              /\ ~Recorded
              /\ err.message[1] = FixableMessage
        /\ (ReportsFix /\ ruleMeta.fixable = Str(s_code)
                /\ (ReportsSuggestions => HasSuggestionsTrue)) =>
              /\ PassGoesOn
              /\ reported[Len(reported)] = ListenerProblem
              /\ reported[Len(reported)].fix

C11_Witness ==
    /\ lpc = "thrown"
    /\ ReportsFix
    /\ ruleMeta.present
    /\ FixableUnset
    /\ reported # <<>>

\* C12: a report with a fix is accepted only when meta.fixable is "code" or
\* "whitespace"; with any other value it ends the pass with an error.
C12_FixableCodeOrWhitespace ==
    (ListenerRan /\ ReportsFix /\ ruleMeta.fixable \notin {Str(s_code), Str(s_whitespace)}) =>
        /\ PassFailed
        /\ ~Recorded

\* C13: a report with suggestions ends the pass with an error, and records
\* nothing, unless meta.hasSuggestions is exactly true; declaring only
\* meta.docs.suggestion does not help (the error then names that flag);
\* with meta.hasSuggestions true the report is recorded.
C13_SuggestionsNeedFlag ==
    ListenerRan =>
        /\ (ReportsSuggestions /\ ~HasSuggestionsTrue) =>
              /\ PassFailed
              /\ ~Recorded
              /\ (~ReportsFix \/ Truthy(ruleMeta.fixable)) =>
                    err.message[1] =
                        IF ruleMeta.present /\ ruleMeta.docs = DocsWithSuggestion
                        THEN DeprecatedSuggestionMessage
                        ELSE HasSuggestionsMessage
        /\ (ReportsSuggestions /\ HasSuggestionsTrue /\ ~ReportsFix) =>
              /\ PassGoesOn
              /\ reported[Len(reported)].suggestions

C13_Witness ==
    /\ lpc = "thrown"
    /\ ReportsSuggestions
    /\ ruleMeta.present
    /\ ruleMeta.hasSuggestions = Undefined
    /\ ruleMeta.docs = DocsWithSuggestion
    /\ reported # <<>>
    /\ err.message[1] = DeprecatedSuggestionMessage

-----------------------------------------------------------------------------
(* Properties of a listener that throws *)

\* a listener threw while the queue was dispatched
ListenerThrew == rpc = "thrown" /\ rlog.thrownAt # 0

\* the pieces the catch block of the verification appends to the message
HasPiece(e, piece) == \E k \in 1..Len(e.message) : e.message[k] = piece

\* C14: when a listener throws, no listener is called for a later queue
\* entry, the pass returns no Problem list, and the error the caller gets
\* carries the rule id of the listener and a message extended with the file
\* name, the start line of the current node and the rule id.
C14_ListenerThrowAborts ==
    ListenerThrew =>
        /\ \A e \in rlog.invoked : e[2] <= rlog.thrownAt
        /\ queueIdx = rlog.thrownAt
        /\ rlog.error.ruleId = RuleName(rlog.thrower)
        /\ rlog.error.currentNode = NodeOf(rlog.tree, currentNode)
        /\ HasPiece(rlog.error, "\nOccurred while linting " \o Filename)
        /\ HasPiece(rlog.error, ":" \o ToString(currentNode))
        /\ HasPiece(rlog.error, "\nRule: '" \o RuleName(rlog.thrower) \o "'")

-----------------------------------------------------------------------------
(* One verification call: parser resolution, parse failure, sorting *)

\* the call has returned a list to its caller
CallReturned == vpc = "returned"

\* the steps of the call that have run so far
StagesRun == {stages[i] : i \in 1..Len(stages)}

\* config.parser is a string that is no key of the parser map
UnregisteredParserNamed == vinput.parser = "unregistered"

\* the call parses a text and the parser throws on it
ParserFailsOnText ==
    /\ vinput.source = "text"
    /\ vinput.parser # "unregistered"
    /\ ~vinput.parses
    /\ "parse" \in StagesRun

C16_ParseFailure ==
    ParserFailsOnText =>
        /\ vpc = "returned"
        /\ stages = <<"parse">>
        /\ Len(vresult) = 1
        /\ vresult[1].fatal = TRUE
        /\ vresult[1].severity = 2
        /\ vresult[1].ruleId = "null"
        /\ produced = <<>>
        /\ handed = <<>>

\* the registered parser has thrown on the text and the call has returned
C16_Witness ==
    /\ ParserFailsOnText
    /\ CallReturned
    /\ vinput.parser = "registered"
    /\ Len(vresult) = 1

\* the call has handed a list to applyDisableDirectives
HandedOver == "applyDisableDirectives" \in StagesRun

\* (line, column) of a is not behind that of b
NotBehind(a, b) == a.line < b.line \/ (a.line = b.line /\ a.column <= b.column)

\* the Problems of a list at one place of the text, in the order of the list
ProblemsAt(problems, place) ==
    SelectSeq(problems, LAMBDA q : q.line = place.line /\ q.column = place.column)

\* C17: the list handed to applyDisableDirectives holds the Problems
\* runRules returned in non-decreasing (line, column) order, and Problems
\* with equal (line, column) are in the order in which runRules returned them.
C17_SortedStable ==
    HandedOver =>
        /\ Len(handed) = Len(produced)
        /\ \A i \in 1..Len(handed) : \A j \in i..Len(handed) : NotBehind(handed[i], handed[j])
        /\ \A place \in PositionsOfPass : ProblemsAt(handed, place) = ProblemsAt(produced, place)

\* runRules returned three Problems out of order, the two of one place by
\* different rules with the later rule id first, and the list was handed over
C17_Witness ==
    /\ HandedOver
    /\ Len(produced) = MaxProblems
    /\ handed # produced
    /\ \E i \in 1..Len(produced) : \E j \in (i + 1)..Len(produced) :
        /\ produced[i].line = produced[j].line
        /\ produced[i].column = produced[j].column
        /\ produced[i].ruleId = OtherRuleId
        /\ produced[j].ruleId = ListenerRuleId
    /\ \E i \in 1..(Len(produced) - 1) : ~NotBehind(produced[i], produced[i + 1])


-----------------------------------------------------------------------------
(* Traverser: enter and leave calls *)

\* the nodes among the values under the keys of node n, in order
ChildNodes(tree, n) == SelectSeq(tree.kids[n], isNode)

\* node n and every node under it through the key map
RECURSIVE Subtree(_, _)
Subtree(tree, n) ==
    {n} \cup UNION {Subtree(tree, tree.kids[n][i]) :
                        i \in {j \in 1..Len(tree.kids[n]) : isNode(tree.kids[n][j])}}

\* the nodes of the traversed tree reachable from the root through the key map
Reachable == IF ttree = NoTree THEN {} ELSE Subtree(ttree, 1)

\* the positions in the log of the enter and of the leave calls
EnterIndexes == {i \in 1..Len(tlog) : tlog[i].kind = "enter"}

LeaveIndexes == {i \in 1..Len(tlog) : tlog[i].kind = "leave"}

\* no callback of the traversal has called skip() or break()
NoSkipNoBreak == \A i \in 1..Len(tlog) : tlog[i].call = "none"

TraversalDone == tpc = "done"

\* C18: in a traversal without skip() and break() no node is entered or
\* left twice and every leave(node) comes after enter(node); when the
\* traversal is over, the number of enter calls and the number of leave calls
\* both equal the number of nodes reachable through the key map, each of
\* which got one enter and one leave.
C18_EnterLeaveOnce ==
    NoSkipNoBreak =>
        /\ \A i, j \in EnterIndexes : tlog[i].node = tlog[j].node => i = j
        /\ \A i, j \in LeaveIndexes : tlog[i].node = tlog[j].node => i = j
        /\ \A j \in LeaveIndexes : \E i \in EnterIndexes : i < j /\ tlog[i].node = tlog[j].node
        /\ TraversalDone =>
            /\ Cardinality(EnterIndexes) = Cardinality(Reachable)
            /\ Cardinality(LeaveIndexes) = Cardinality(Reachable)
            /\ {tlog[i].node : i \in EnterIndexes} = Reachable
            /\ {tlog[i].node : i \in LeaveIndexes} = Reachable

\* the traversal of the tree that has a value that is no node and a node
\* under no key is over, and no callback called skip() or break()
C18_Witness ==
    /\ TraversalDone
    /\ NoSkipNoBreak
    /\ Len(ttree.type) = 6
    /\ Cardinality(Reachable) = 5
    /\ Len(tlog) = 10

\* break() was called in the enter call at position i of the log
BreakInEnter(i) == tlog[i].kind = "enter" /\ tlog[i].call \in {"break", "both"}

\* C19: an enter call in which break() is invoked is the last callback of
\* the traversal: no enter and no leave follows it, not of the node, of its
\* descendants or later siblings, nor of the ancestors that are open.
C19_BreakStopsAll ==
    \A i \in 1..Len(tlog) : BreakInEnter(i) => i = Len(tlog)

\* the traversal is over after break() in the enter of a node that has two
\* open ancestors and a later sibling with a child
C19_Witness ==
    /\ TraversalDone
    /\ Len(ttree.type) = 6
    /\ Len(tlog) = 3
    /\ BreakInEnter(3)
    /\ tlog[3].node = 3
    /\ tlog[3].call = "break"

\* skip(), and not break(), was called in the enter call at position i
SkipInEnter(i) == tlog[i].kind = "enter" /\ tlog[i].call = "skip"

\* the callback has returned and the traversal has made its next call or is over
Passed(i) == Len(tlog) > i \/ TraversalDone

\* the node after n among the children of its parent, 0 when there is none
NextSibling(n, parent) ==
    IF parent = 0 THEN 0
    ELSE LET sibs == ChildNodes(ttree, parent)
             at == CHOOSE k \in 1..Len(sibs) : sibs[k] = n
         IN IF at < Len(sibs) THEN sibs[at + 1] ELSE 0

\* C20: when skip() is invoked during enter(node), no node under node is
\* ever entered or left; the next callback is leave(node); unless that leave
\* breaks, the callback after it is the enter of the next sibling of node
\* (the leave of the parent when there is none).  The skip does not reach a
\* later node: the enter of a node that calls nothing is followed by the
\* enter of its first child.
C20_SkipOneNode ==
    /\ \A i \in 1..Len(tlog) : SkipInEnter(i) =>
        /\ \A k \in 1..Len(tlog) :
              tlog[k].node \in Subtree(ttree, tlog[i].node) => tlog[k].node = tlog[i].node
        /\ Passed(i) =>
            /\ Len(tlog) > i
            /\ tlog[i + 1].kind = "leave"
            /\ tlog[i + 1].node = tlog[i].node
        /\ (Len(tlog) > i /\ tlog[i + 1].call \in {"none", "skip"} /\ Passed(i + 1)) =>
              LET sib == NextSibling(tlog[i].node, tlog[i].parent)
              IN IF sib # 0
                 THEN /\ Len(tlog) > i + 1
                      /\ tlog[i + 2].kind = "enter"
                      /\ tlog[i + 2].node = sib
                 ELSE IF tlog[i].parent # 0
                 THEN /\ Len(tlog) > i + 1
                      /\ tlog[i + 2].kind = "leave"
                      /\ tlog[i + 2].node = tlog[i].parent
                 ELSE Len(tlog) = i + 1
    /\ \A k \in 1..Len(tlog) :
          (/\ tlog[k].kind = "enter"
           /\ tlog[k].call = "none"
           /\ ChildNodes(ttree, tlog[k].node) # <<>>
           /\ Passed(k)) =>
              /\ Len(tlog) > k
              /\ tlog[k + 1].kind = "enter"
              /\ tlog[k + 1].node = ChildNodes(ttree, tlog[k].node)[1]

\* the traversal is over; enter of node 2 called skip(), its child 3 was
\* never entered, node 2 was left, and its next sibling 4 and the child 5 of
\* that sibling were entered
C20_Witness ==
    /\ TraversalDone
    /\ Len(ttree.type) = 6
    /\ \E i \in 1..Len(tlog) :
        /\ SkipInEnter(i)
        /\ tlog[i].node = 2
        /\ Len(tlog) >= i + 3
        /\ tlog[i + 1].kind = "leave" /\ tlog[i + 1].node = 2
        /\ tlog[i + 1].parent = 1 /\ tlog[i + 1].call = "none"
        /\ tlog[i + 2].kind = "enter" /\ tlog[i + 2].node = 4
        /\ tlog[i + 3].kind = "enter" /\ tlog[i + 3].node = 5
    /\ \A k \in 1..Len(tlog) : tlog[k].node # 3

-----------------------------------------------------------------------------
(* Cursors: what a created cursor yields *)

Reverse(seq) == [i \in 1..Len(seq) |-> seq[Len(seq) + 1 - i]]

Drop(seq, k) == SubSeq(seq, k + 1, Len(seq))

Take(seq, n) == SubSeq(seq, 1, IF n < Len(seq) THEN n ELSE Len(seq))

IsPrefix(a, b) == Len(a) <= Len(b) /\ SubSeq(b, 1, Len(a)) = a

\* the full output of the base cursor: the items of the range, in the
\* direction of the factory
BaseOutput(input) ==
    LET range == SubSeq(ItemsOf(input.kinds, input.includeComments), input.first, input.last)
    IN IF input.forward THEN range ELSE Reverse(range)

\* filter, then drop skip values, then take count values, computed eagerly;
\* null as filter accepts every value and a negative count takes them all
EagerOutput(input) ==
    LET kept == IF input.filter.given
                THEN SelectSeq(BaseOutput(input), LAMBDA v : v \in input.filter.accepts)
                ELSE BaseOutput(input)
        rest == Drop(kept, input.skip)
    IN IF input.count >= 0 THEN Take(rest, input.count) ELSE rest

\* moveNext() has reported the end of the cursor
Exhausted == yielded.calls > Len(yielded.values)

\* C21: the values a cursor of either factory yields are, in order, those of
\* filtering the full output of the base cursor, dropping the first skip
\* accepted values and taking the next count: always a prefix of that
\* sequence, and the whole of it once moveNext() has reported the end.
C21_CursorComposition ==
    cpc = "created" =>
        /\ IsPrefix(yielded.values, EagerOutput(cinput))
        /\ Exhausted => yielded.values = EagerOutput(cinput)

\* a backward cursor over two items with a filter that accepts both, a skip
\* of one and a count of one has yielded the first item and reported the end
C21_Witness ==
    /\ cpc = "created"
    /\ ~cinput.forward
    /\ cinput.filter.given
    /\ cinput.skip = 1
    /\ cinput.count = 1
    /\ BaseOutput(cinput) = <<2, 1>>
    /\ Exhausted
    /\ yielded.values = <<1>>

\* the decorators of a cursor, innermost first
KindsOfLayers == [i \in 1..Len(cursor.layers) |-> cursor.layers[i].kind]

\* the decorators the arguments ask for: Filter, then Skip, then Limit
WantedLayers(input) ==
    (IF input.filter.given THEN <<"filter">> ELSE <<>>)
    \o (IF input.skip >= 1 THEN <<"skip">> ELSE <<>>)
    \o (IF input.count >= 0 THEN <<"limit">> ELSE <<>>)

\* C22: a cursor created with count 0 yields nothing: its first moveNext()
\* reports no value; the factory wraps the base cursor in Filter only when a
\* filter is given, in Skip only for skip >= 1 and in Limit for every count
\* >= 0, Filter innermost, then Skip, then Limit.
C22_LimitZeroAndLayers ==
    cpc = "created" =>
        /\ KindsOfLayers = WantedLayers(cinput)
        /\ cinput.count = 0 =>
            /\ yielded.values = <<>>
            /\ yielded.firstReturn \in {"none", "no value"}

\* a cursor with count 0 over a range that has items was asked for a value
C22_Witness ==
    /\ cpc = "created"
    /\ cinput.count = 0
    /\ cinput.skip = 0
    /\ ~cinput.filter.given
    /\ Len(BaseOutput(cinput)) = MaxItems
    /\ yielded.firstReturn = "no value"
    /\ KindsOfLayers = <<"limit">>

-----------------------------------------------------------------------------
(* The registries of one Linter instance *)

\* the ids registered so far, in the order of their first registration
RECURSIVE FirstRegistrations(_)
FirstRegistrations(log) ==
    IF log = <<>> THEN <<>>
    ELSE LET before == FirstRegistrations(SubSeq(log, 1, Len(log) - 1))
             id == log[Len(log)].id
         IN IF \E i \in 1..Len(before) : before[i] = id THEN before ELSE Append(before, id)

\* the module most recently registered for an id
LatestRegistered(log, id) ==
    log[CHOOSE i \in 1..Len(log) :
            log[i].id = id /\ \A j \in (i + 1)..Len(log) : log[j].id # id].rule

\* the function a registered module stands for
FactoryOf(module) == IF module.type = "function" THEN module.fn ELSE module.create

WasRegistered(id) == \E i \in 1..Len(elog) : elog[i].id = id

\* C23: whatever defineRule, defineRules, defineParser and verifyAndFix calls
\* were made on the instance, getRules() returns a map that has exactly the
\* ids registered so far, in the order of their first registration, each
\* with the normalized descriptor of its latest registration.
C23_GetRulesRegistry ==
    epc = "getRules" =>
        /\ ~got.threw
        /\ [i \in 1..Len(got.entries) |-> got.entries[i].id] = FirstRegistrations(elog)
        /\ \A i \in 1..Len(got.entries) :
            /\ got.entries[i].rule.type = "object"
            /\ got.entries[i].rule.create = FactoryOf(LatestRegistered(elog, got.entries[i].id))

\* C24: a lookup of an id that was never registered returns null; a lookup
\* of a registered id returns an object whose create is the function last
\* registered for the id, when that was a bare function, or the create of
\* the object last registered, with the other properties of that module.
C24_NormalizedLookup ==
    epc = "get" =>
        IF WasRegistered(got.id)
        THEN LET latest == LatestRegistered(elog, got.id)
             IN /\ got.rule.type = "object"
                /\ got.rule.create \in FunctionNames
                /\ got.rule.create = FactoryOf(latest)
                /\ got.rule.props = latest.props
        ELSE got.rule = NoRuleModule

\* an id registered first as an object and then as a bare function with a
\* schema property was looked up
C24_Witness ==
    /\ epc = "get"
    /\ got.id = "a"
    /\ Len(elog) = 2
    /\ elog[1] = [id |-> "a", rule |-> [type |-> "object", fn |-> "none", create |-> "f1", props |-> {"meta"}]]
    /\ elog[2] = [id |-> "a", rule |-> [type |-> "function", fn |-> "f2", create |-> "none", props |-> {"schema"}]]
    /\ got.rule.create = "f2"

-----------------------------------------------------------------------------
(* Rule contexts: what one rule can do to the view of another *)

\* C25: within one pass, whatever the other rules assign, add or delete on
\* their context, on the shared base or on the objects reachable from them,
\* a rule that has written nothing itself observes through its own context
\* exactly what was built for it.
C25_ContextsIsolated ==
    xpc = "pass" =>
        \A r \in ContextRules : r \notin acted => ViewOf(heap, r) = ViewOf(BuiltHeap, r)

\* the frozen part of C25: no write changes a rule context, the shared
\* traversal context or the base, nor the options array of another rule
FrozenPartKept ==
    xpc = "pass" =>
        /\ \A o \in FrozenObjects : heap[o] = AsBuilt(TRUE)
        /\ \A r \in ContextRules : r \notin acted => heap[OptionsOf(r)] = AsBuilt(FALSE)

-----------------------------------------------------------------------------
(* Options and environments of a verification call *)

\* the policy the call hands to applyDisableDirectives
Policy == prepared.options.reportUnusedDisableDirectives

GivenPolicy == pinput.options.reportUnusedDisableDirectives

\* the config enables the reporting of unused directives
ConfigEnablesPolicy ==
    IF pinput.config.hasLinterOptions
    THEN pinput.config.linterOptions.reportUnusedDisableDirectives = Bool(TRUE)
    ELSE pinput.config.own.reportUnusedDisableDirectives = Bool(TRUE)

C26_WitnessTrue ==
    /\ ppc = "options"
    /\ GivenPolicy = Bool(TRUE)
    /\ ~ConfigEnablesPolicy
    /\ Policy = Str(s_error)

\* C29: the environments enabled in the config or in the text cannot be
\* resolved and are dropped: no environment is enabled, the globals of the
\* call are those of the config, and its parser options are those of the
\* config (with globalReturn off in a module and the ECMAScript version as
\* an edition number), whatever environments were named.
C29_UnresolvedEnvsDropped ==
    ppc = "environments" =>
        /\ prepared.enabledEnvs = <<>>
        /\ prepared.globals = pinput.envs.globals
        /\ prepared.parserOptions.sourceType = pinput.envs.parserOptions.sourceType
        /\ prepared.parserOptions.globalReturn =
              (IF pinput.envs.parserOptions.sourceType = Str(s_module)
               THEN Bool(FALSE) ELSE pinput.envs.parserOptions.globalReturn)
        /\ prepared.parserOptions.ecmaVersion =
              (IF pinput.envs.parserOptions.ecmaVersion = Num(2015)
               THEN Num(6) ELSE pinput.envs.parserOptions.ecmaVersion)

\* the config enables browser, the text enables node, the config has a
\* global and no ECMAScript version
C29_Witness ==
    /\ ppc = "environments"
    /\ pinput.envs.env["browser"] = Bool(TRUE)
    /\ pinput.envs.inText = {"node"}
    /\ pinput.envs.allowInlineConfig /\ ~pinput.envs.warnInlineConfig
    /\ EnabledEnvNames(pinput.envs) = EnvOrder
    /\ pinput.envs.globals["g"] = "writable"
    /\ pinput.envs.parserOptions.ecmaVersion = Undefined
    /\ prepared.enabledEnvs = <<>>

-----------------------------------------------------------------------------
(* Parsing and the reuse of a given SourceCode *)

\* the call is past the step that parses or reuses
PastParseStep == vpc \in {"globals", "rules", "sort", "returned", "thrown"} /\ ~ParserMissing(vinput)

ParserInvoked == "parse" \in StagesRun

ScopeAnalyzed == "analyzeScope" \in StagesRun

\* C27: a call invokes the parser exactly when its input is text.  A given
\* SourceCode is never parsed again: with a scopeManager it is used as it is,
\* without one only its scope is analyzed, on the AST it already has.
C27_ParseOnlyText ==
    /\ ParserInvoked => vinput.source = "text"
    /\ ScopeAnalyzed => vinput.source = "bareSourceCode"
    /\ PastParseStep =>
          /\ vinput.source = "text" => ParserInvoked
          /\ vinput.source = "bareSourceCode" => ScopeAnalyzed /\ lastSourceCode # "bareSourceCode"
          /\ vinput.source = "sourceCode" => lastSourceCode = "sourceCode"

\* C27 as stated: whenever the input is not a SourceCode that already has
\* its scope analysis, the parser is invoked.
C27_ParsedUnlessScoped ==
    (PastParseStep /\ vinput.source # "sourceCode") => ParserInvoked

\* a SourceCode without scopeManager went through the call to its end
C27_Witness ==
    /\ CallReturned
    /\ vinput.source = "bareSourceCode"
    /\ stages = <<"analyzeScope", "addDeclaredGlobals", "runRules", "applyDisableDirectives">>
    /\ lastSourceCode = "rebuiltSourceCode"

-----------------------------------------------------------------------------
(* A traverser used again *)

\* the call the k-th callback makes, read from a list of calls
CallAt(calls, k) == IF k <= Len(calls) THEN calls[k] ELSE "none"

\* #traverse(node, parent) as one recursive function over a walk w: the
\* fields skipped and broken, the events so far and the number of the next
\* callback
RECURSIVE WalkNode(_, _, _, _, _)
RECURSIVE WalkChildren(_, _, _, _, _)
WalkNode(tree, node, parent, w, calls) ==
    IF ~isNode(node) THEN w
    ELSE LET c == CallAt(calls, w.at)
             entered == [skipped |-> c \in {"skip", "both"},
                         broken |-> w.broken \/ c \in {"break", "both"},
                         events |-> Append(w.events, [kind |-> "enter", node |-> node,
                                                      parent |-> parent, call |-> c]),
                         at |-> w.at + 1]
             kids == tree.kids[node]
             inside == IF ~entered.skipped /\ ~entered.broken /\ Len(kids) >= 1
                       THEN WalkChildren(tree, node, 1, entered, calls)
                       ELSE entered
             d == CallAt(calls, inside.at)
         IN IF inside.broken THEN inside
            ELSE [skipped |-> inside.skipped \/ d \in {"skip", "both"},
                  broken |-> d \in {"break", "both"},
                  events |-> Append(inside.events, [kind |-> "leave", node |-> node,
                                                    parent |-> parent, call |-> d]),
                  at |-> inside.at + 1]

WalkChildren(tree, node, idx, w, calls) ==
    IF idx <= Len(tree.kids[node]) /\ ~w.broken
    THEN WalkChildren(tree, node, idx + 1,
                      WalkNode(tree, tree.kids[node][idx], node, w, calls), calls)
    ELSE w

\* the events of traverse() on an instance that was never used, with
\* callbacks that make the given calls
FreshEvents(tree, calls) ==
    WalkNode(tree, 1, 0, [skipped |-> FALSE, broken |-> FALSE, events |-> <<>>, at |-> 1],
             calls).events

CallsMade == [i \in 1..Len(tlog) |-> tlog[i].call]

\* C28: a traversal on an instance that was used before, also one whose
\* earlier traversal was ended by break() or ended with skip() set, makes
\* exactly the enter and leave calls a new instance makes for the same tree
\* and the same callbacks.
C28_ReusedLikeFresh ==
    tpc = "done" =>
        [i \in 1..Len(tlog) |-> [kind |-> tlog[i].kind, node |-> tlog[i].node,
                                 parent |-> tlog[i].parent, call |-> tlog[i].call]]
            = FreshEvents(ttree, CallsMade)

\* a whole tree of three nodes was walked by an instance whose earlier
\* traversal was ended by break()
C28_Witness ==
    /\ tpc = "done"
    /\ tprev.used
    /\ tprev.broken
    /\ Len(ttree.type) = 3
    /\ Len(tlog) = 6
    /\ NoSkipNoBreak

-----------------------------------------------------------------------------
(* The phases of a pass *)

PassStarted == rpc \in {"rules", "done", "thrown"}

\* the rule ids of the configuration whose factory the pass calls, in the
\* order of the keys: the rules that are not off and are defined
FactoriesToCall ==
    LET wanted == SelectSeq(configuredRules,
                            LAMBDA c : /\ ~IsDisabled(getRuleSeverity(c.config))
                                       /\ ruleMap[c.ruleId].defined)
    IN [i \in 1..Len(wanted) |-> wanted[i].ruleId]

AnyFactoryCalled == rlog.created # <<>>

AnyListenerCalled == rlog.dispatched # <<>>

\* C30: in a pass the traversal has written every parent and filled the
\* whole queue before a rule factory is called; the factories of the enabled
\* rules are called in the order of the rule configuration's keys and all of
\* them before the first listener; the listeners are called by going through
\* the queue in the order it was recorded.
C30_PhasesOrdered ==
    PassStarted =>
        /\ nodeQueue = TraverseNode(rlog.tree, 1)
        /\ Len(nodeQueue) = 2 * Len(rlog.tree.type)
        /\ rlog.parents = ParentsWritten(rlog.tree)
        /\ IsPrefix(rlog.created, FactoriesToCall)
        /\ AnyListenerCalled => rlog.created = FactoriesToCall
        /\ rlog.dispatched = [i \in 1..queueIdx |-> i]
        /\ \A e \in rlog.invoked : e[2] \in 1..queueIdx

\* two rules were created in key order, and the second one's listener ran
\* at an entry of the queue behind the first
C30_Witness ==
    /\ rpc = "done"
    /\ Len(rlog.created) = 2
    /\ rlog.created = FactoriesToCall
    /\ \E e \in rlog.invoked : e[1] = rlog.created[2] /\ e[2] > 1
    /\ Len(rlog.dispatched) = Len(nodeQueue)

-----------------------------------------------------------------------------
(* Parents and ancestors *)

\* n is a value under a key of m
IsChildOf(tree, n, m) == \E k \in 1..Len(tree.kids[m]) : tree.kids[m][k] = n

\* a listener was called for the queue entry the pass is at
ListenerRanHere == queueIdx >= 1 /\ \E e \in rlog.invoked : e[2] = queueIdx

\* what context.getAncestors() returns at this point of the pass
AncestorsNow == getAncestors(rlog.parents, currentNode)

\* C31: once the queue is filled, the parent of every node of the tree but
\* the root is the node it hangs under and the parent of the root is null;
\* when a listener runs for a queue entry, getAncestors() is the chain from
\* the root down to the parent of the entry's node, without the node.
C31_ParentsAndAncestors ==
    PassStarted =>
        /\ rlog.parents[1] = 0
        /\ \A n \in 2..Len(rlog.tree.type) :
              rlog.parents[n] # 0 /\ IsChildOf(rlog.tree, n, rlog.parents[n])
        /\ ListenerRanHere =>
              /\ currentNode = nodeQueue[queueIdx].node
              /\ \A i \in 1..Len(AncestorsNow) : AncestorsNow[i] # currentNode
              /\ (AncestorsNow = <<>>) <=> (currentNode = 1)
              /\ AncestorsNow # <<>> =>
                    /\ AncestorsNow[1] = 1
                    /\ IsChildOf(rlog.tree, currentNode, AncestorsNow[Len(AncestorsNow)])
              /\ \A i \in 1..(Len(AncestorsNow) - 1) :
                    IsChildOf(rlog.tree, AncestorsNow[i + 1], AncestorsNow[i])

\* a listener runs at a node two levels under the root
C31_Witness ==
    /\ PassStarted
    /\ ListenerRanHere
    /\ currentNode = 3
    /\ AncestorsNow = <<1, 2>>

-----------------------------------------------------------------------------
(* The order of the enter and leave calls *)

\* the nodes under n, without n
Descendants(tree, n) == Subtree(tree, n) \ {n}

\* the calls of a traversal no callback interferes with, computed from the
\* tree: enter, the children in their order, leave
RECURSIVE NestedEvents(_, _, _)
RECURSIVE NestedEventsOfAll(_, _, _)
NestedEvents(tree, n, parent) ==
    <<[kind |-> "enter", node |-> n, parent |-> parent]>>
        \o NestedEventsOfAll(tree, ChildNodes(tree, n), n)
        \o <<[kind |-> "leave", node |-> n, parent |-> parent]>>

NestedEventsOfAll(tree, ns, parent) ==
    IF ns = <<>> THEN <<>>
    ELSE NestedEvents(tree, Head(ns), parent) \o NestedEventsOfAll(tree, Tail(ns), parent)

\* the log without what the callbacks did
CallsLogged == [i \in 1..Len(tlog) |->
                   [kind |-> tlog[i].kind, node |-> tlog[i].node, parent |-> tlog[i].parent]]

\* C32: the calls are well nested and in a fixed order: enter(node, parent)
\* comes before every call for a node under node and leave(node, parent)
\* after them, the children are visited in the order of the keys and of the
\* array elements, and a value that is no node gets no call; without skip()
\* and break() the calls of a finished traversal are those the tree gives.
C32_WellNested ==
    /\ \A i \in 1..Len(tlog) :
          /\ isNode(tlog[i].node)
          /\ tlog[i].node \in Reachable
          /\ IF tlog[i].node = 1 THEN tlog[i].parent = 0
             ELSE /\ isNode(tlog[i].parent)
                  /\ \E k \in 1..Len(ttree.kids[tlog[i].parent]) :
                        ttree.kids[tlog[i].parent][k] = tlog[i].node
    /\ \A j \in 1..Len(tlog) : \A n \in Reachable :
          tlog[j].node \in Descendants(ttree, n) =>
              /\ \E i \in EnterIndexes : i < j /\ tlog[i].node = n
              /\ \A l \in LeaveIndexes : tlog[l].node = n => j < l
    /\ \A m \in Reachable :
          LET c == ChildNodes(ttree, m)
          IN \A p, q \in 1..Len(c) : p < q =>
                \A i, j \in 1..Len(tlog) :
                    (tlog[i].node \in Subtree(ttree, c[p]) /\ tlog[j].node \in Subtree(ttree, c[q]))
                        => i < j
    /\ (TraversalDone /\ NoSkipNoBreak) => CallsLogged = NestedEvents(ttree, 1, 0)

\* the tree of six nodes, with a value that is no node between two children
\* of the root, was walked to the end
C32_Witness ==
    /\ TraversalDone
    /\ NoSkipNoBreak
    /\ Len(ttree.type) = 6
    /\ [i \in 1..Len(tlog) |-> tlog[i].node] = <<1, 2, 3, 3, 2, 4, 5, 5, 4, 1>>
    /\ tlog[6].kind = "enter" /\ tlog[6].parent = 1

-----------------------------------------------------------------------------
(* current() and parents() in the callbacks *)

\* the nodes from the root down to the parent of node n in the traversed tree
OpenAncestors(n) == getAncestors(ParentsWritten(ttree), n)

\* a callback took an element off the array parents() gave it, and callbacks
\* of nodes under open ancestors came after it
CopyMutated(i) == tlog[i].call = "pop" /\ tlog[i].parents # <<>>

\* C33: in every enter(node) and leave(node) callback current() is node and
\* parents() is the chain of the open ancestors from the root to the parent
\* of node, also after a callback has changed an array parents() returned;
\* when traverse() has returned, current() is null.
C33_CurrentAndParents ==
    /\ \A i \in 1..Len(tlog) :
          /\ tlog[i].current = tlog[i].node
          /\ tlog[i].parents = OpenAncestors(tlog[i].node)
    /\ TraversalDone => CurrentOf(traverser) = 0

\* a callback two levels down changed the array parents() returned, and a
\* later callback at the same depth still got the whole chain
C33_Witness ==
    /\ TraversalDone
    /\ CurrentOf(traverser) = 0
    /\ \E i, j \in 1..Len(tlog) :
          /\ i < j
          /\ CopyMutated(i)
          /\ tlog[i].parents = <<1, 2>>
          /\ tlog[j].kind = "enter"
          /\ tlog[j].parents = <<1, 4>>

-----------------------------------------------------------------------------
(* The global scope after its augmentation *)

Augmented == gpc = "augmented"

\* the references of the through list before the augmentation that name n
NamedBefore(n) ==
    LET refs == SelectSeq(ginput.scope.through, LAMBDA ref : ref.name = n)
    IN [i \in 1..Len(refs) |-> refs[i].id]

\* C34: after the augmentation every configured global whose value is not
\* "off" has a variable in the global scope, writeable exactly when the
\* value is "writable"; no reference left on the through list names a
\* variable of the global scope, the references that stay keep their order,
\* and each reference taken off is resolved to the variable of its name and
\* appended to that variable's references.
C34_GlobalsAugmented ==
    Augmented =>
        /\ \A n \in GlobalNames :
              ginput.globals[n] \notin {"absent", "off"} =>
                  /\ globalScope.set[n].present
                  /\ globalScope.set[n].writeable = Bool(ginput.globals[n] = "writable")
        /\ \A i \in 1..Len(globalScope.through) :
              ~InScope(globalScope, globalScope.through[i].name)
        /\ globalScope.through =
              SelectSeq(ginput.scope.through, LAMBDA ref : ~InScope(globalScope, ref.name))
        /\ \A n \in GlobalNames :
              globalScope.set[n].present =>
                  /\ globalScope.set[n].references =
                        ginput.scope.set[n].references \o NamedBefore(n)
                  /\ \A i \in 1..Len(NamedBefore(n)) :
                        <<NamedBefore(n)[i], n>> \in globalScope.resolved
        /\ \A pair \in globalScope.resolved : InScope(globalScope, pair[2])

\* a writable global was added and took both references, a declared
\* variable configured with the old spelling stays not writable
C34_Witness ==
    /\ Augmented
    /\ ginput.globals = [g |-> "writable", window |-> "writeable"]
    /\ ~ginput.scope.set["g"].present
    /\ ginput.scope.set["window"].present
    /\ Len(ginput.scope.through) = 2
    /\ globalScope.set["g"].references = <<1, 2>>
    /\ globalScope.set["g"].writeable = Bool(TRUE)
    /\ globalScope.set["window"].writeable = Bool(FALSE)
    /\ globalScope.through = <<>>

-----------------------------------------------------------------------------
(* The backward token cursor on its own *)

\* the cursor is a backward token cursor without a decorator
BackwardTokenCursor ==
    cpc = "created" /\ ~cinput.forward /\ ~cinput.includeComments /\ cursor.layers = <<>>

\* the tokens of the range from its last index down to its first
RangeBackwards ==
    Reverse(SubSeq(ItemsOf(cinput.kinds, FALSE), cinput.first, cinput.last))

\* the calls of moveNext() that reported the end
EndReports == yielded.calls - Len(yielded.values)

\* C35: a backward token cursor yields the tokens of its range from the last
\* index down to the first, the first included, each once and in strictly
\* decreasing order; once moveNext() has returned false every later call
\* returns false too and current stays the last value produced.
C35_BackwardOnce ==
    BackwardTokenCursor =>
        /\ IsPrefix(yielded.values, RangeBackwards)
        /\ \A i, j \in 1..Len(yielded.values) : i < j => yielded.values[i] > yielded.values[j]
        /\ Exhausted =>
              /\ yielded.values = RangeBackwards
              /\ cursor.current = IF yielded.values = <<>> THEN 0
                                  ELSE yielded.values[Len(yielded.values)]
              /\ ~BackwardMoveNext(cursor).ret

\* both tokens of a text were yielded, the later one first, and two more
\* calls reported the end
C35_Witness ==
    /\ BackwardTokenCursor
    /\ yielded.values = <<2, 1>>
    /\ EndReports = 2
    /\ cursor.current = 1

-----------------------------------------------------------------------------
(* executeOnFiles calls that run at the same time *)

\* the calls that are inside verifyAndFix
InVerifyAndFix == {t \in TaskIds : tasks[t].pc \in {"parse", "rules"}}

\* the result of a file that is verified on its own
ResultAlone(fileText) == [file |-> fileText, linted |-> {fileText}, inOrder |-> TRUE]

\* C36: executeOnFiles calls on one engine give way to each other only
\* between files, at the read of a file: at most one call is inside
\* verifyAndFix at a time and it stays the running one until verifyAndFix
\* returns, and the result of every file is the result of that file
\* verified on its own.
C36_InterleaveBetweenFiles ==
    /\ Cardinality(InVerifyAndFix) <= 1
    /\ \A t \in InVerifyAndFix : running = t
    /\ \A t \in TaskIds :
          /\ \A i \in 1..Len(tasks[t].results) :
                tasks[t].results[i] = ResultAlone(tasks[t].files[i])
          /\ tasks[t].pc = "done" => Len(tasks[t].results) = Len(tasks[t].files)

\* two calls with two files each have ended, and their files were verified
\* in turns
C36_Witness ==
    /\ \A t \in TaskIds : tasks[t].pc = "done" /\ Len(tasks[t].results) = 2
    /\ tasks[1].files # tasks[2].files
    /\ lintOrder = <<1, 2, 1, 2>>

-----------------------------------------------------------------------------
(* The number of verifications of a call *)

\* C37: when verifyAndFix returns, the text was verified once for every
\* patch round, and once more exactly when the last patch round reported
\* fixed: between 1 and 11 times, and 11 times only after 10 patch rounds
\* that all reported fixed.
C37_VerifyCount ==
    pc = "done" =>
        /\ hist.verifyCalls = hist.patchCalls + (IF hist.lastFixed THEN 1 ELSE 0)
        /\ hist.verifyCalls >= 1
        /\ hist.verifyCalls <= MAX_AUTOFIX_PASSES + 1
        /\ hist.verifyCalls = MAX_AUTOFIX_PASSES + 1 =>
              hist.patchCalls = MAX_AUTOFIX_PASSES /\ hist.allFixed

\* a call that verified the text 11 times
C37_Witness ==
    /\ pc = "done"
    /\ hist.verifyCalls = MAX_AUTOFIX_PASSES + 1
    /\ hist.patchCalls = MAX_AUTOFIX_PASSES
    /\ hist.lastFixed

\* a call whose third patch round applied nothing
C37_WitnessShort ==
    /\ pc = "done"
    /\ hist.verifyCalls = 3
    /\ hist.patchCalls = 3
    /\ ~hist.lastFixed
    /\ hist.anyFixed

-----------------------------------------------------------------------------
(* getSourceCode() after verifyAndFix *)

\* getSourceCode()
getSourceCode == slotSourceCode

\* the last verification of the call returned the Problem of a parse failure
LastVerificationFatal == YieldedOneFatal(fixedResult.messages)

\* C38: when verifyAndFix has returned, getSourceCode() is null if the last
\* verification of the call ended in a parse failure, whatever an earlier
\* call or pass left in the slot, and otherwise it is the SourceCode of the
\* text verified last, which is the output the call returns.
C38_SlotAfterCall ==
    pc = "done" =>
        IF LastVerificationFatal
        THEN getSourceCode = NullSourceCode
        ELSE /\ getSourceCode = hist.verifyArg
             /\ getSourceCode = fixedResult.output

\* after a pass that applied a fix to text 0, the text it gave did not parse
C38_Witness ==
    /\ pc = "done"
    /\ text = 0
    /\ hist.patchCalls = 2
    /\ hist.firstFixed
    /\ hist.fatalPass = 2
    /\ LastVerificationFatal
    /\ fixedResult.output = 1
    /\ getSourceCode = NullSourceCode

-----------------------------------------------------------------------------
(* A Linter that was used before *)

\* C39: with the same rules, parser and patcher, verifyAndFix of a text on
\* a Linter returns what it returns on a new Linter, whatever calls were
\* made on it before and whatever they left in lastSourceCode and
\* lastConfigArray.
C39_HistoryIndependent ==
    outcome.called => outcome.used = outcome.fresh

\* a call for text 0 on a Linter that holds the SourceCode of text 1 and a
\* config, with rules that report a fix on text 0 only
C39_Witness ==
    /\ outcome.called
    /\ outcome.txt = 0
    /\ outcome.before = [lastSourceCode |-> 1, lastConfigArray |-> "wanted"]
    /\ oracle.fixable[0] /\ ~oracle.fixable[1]
    /\ oracle.patched[0] = 1
    /\ outcome.used = [fixed |-> TRUE, output |-> 1, msgs |-> "clean"]

-----------------------------------------------------------------------------
(* Directive comments of the text *)

=============================================================================
